---- MODULE Spec2Model ----
(***************************************************************************)
(* Model of the repetition-detection engine of physioapp:                  *)
(* RepetitionStateMachine (src/src/utils/stateMachineAnalysis.ts) driven   *)
(* by templates produced by the Frame Recorder                             *)
(* (src/src/hooks/useExerciseRecording.ts).                                *)
(*                                                                         *)
(* Units.  Coordinates are in hundredths of the normalised image frame,    *)
(* distances in thousandths (rounded to the nearest thousandth), accuracy  *)
(* in tenths of a percent, time in milliseconds.  The landmark sets are    *)
(* chosen so that no comparison of the code lands exactly on a threshold,  *)
(* where the outcome would depend on floating-point rounding.              *)
(***************************************************************************)
EXTENDS Integers, Sequences, FiniteSets, TLC

VARIABLES
    template,                 \* the constructor's argument
    repCount, repState, proximityThreshold,
    startPoint, endPoint, lastStateChange,
    stateStartTime, lastStateTransitionTime,
    now,                      \* Date.now()
    result,                   \* <<r>>: the StateMachineResult just returned, else <<>>
    constructedAt,            \* Date.now() at construction
    prevTick,                 \* <<t>>: the last processPose call while it is recent, else <<>>
    startSeen,                \* a tick at constructedAt + 1000 or later had the wrist in range of startPoint
    script,                   \* the ticks of the start-end-start scenario made so far
    voice,                    \* the fields of the VoiceFeedbackSystem
    spoken,                   \* the texts the provideFeedback call just made passed to speak()
    prevCall,                 \* <<c>>: the last provideFeedback call, else <<>>
    spokenAt,                 \* <<t>>: Date.now() of the last call that spoke, else <<>>
    args,                     \* <<a>>: the arguments of the single call under examination, else <<>>
    ret,                      \* <<v>>: what that call returned, else <<>>
    recordingState,           \* the Frame Recorder's state
    templateStore             \* the 'exerciseTemplates' item of localStorage, by exercise name

vars == << template, repCount, repState, proximityThreshold, startPoint, endPoint,
           lastStateChange, stateStartTime, lastStateTransitionTime, now, result,
           constructedAt, prevTick, startSeen, script,
           voice, spoken, prevCall, spokenAt, args, ret, recordingState, templateStore >>

voiceVars == << voice, spoken, prevCall, spokenAt >>

callVars == << args, ret >>

recorderVars == << recordingState, templateStore >>

\* everything outside the RepetitionStateMachine and its clock
offMachineVars == << voiceVars, callVars, recorderVars >>

\* everything outside the VoiceFeedbackSystem, the machine and the clock
offVoiceVars == << callVars, recorderVars >>

machineVars == << repCount, repState, proximityThreshold, startPoint, endPoint,
                  lastStateChange, stateStartTime, lastStateTransitionTime >>

\* no single call is under examination
NoCall ==
    /\ args = << >>
    /\ ret = << >>

\* no VoiceFeedbackSystem has been constructed
NoVoice ==
    /\ voice = << >>
    /\ spoken = << >>
    /\ prevCall = << >>
    /\ spokenAt = << >>

\* no Frame Recorder is mounted
NoRecorder ==
    /\ recordingState = << >>
    /\ templateStore = << >>

OffMachineIdle == NoVoice /\ NoCall /\ NoRecorder

----------------------------------------------------------------------------
(* Bounds *)

MaxTime == 4000

MaxFrames == 2

----------------------------------------------------------------------------
(* Values *)

\* null / undefined (a landmark, a point, a message)
Null == << >>

\* a[i] of a JavaScript array (0-based), undefined when out of range
At(a, i) == IF (i + 1) \in DOMAIN a THEN a[i + 1] ELSE Null

Abs(v) == IF v < 0 THEN -v ELSE v

Max(a, b) == IF a >= b THEN a ELSE b

Min(a, b) == IF a <= b THEN a ELSE b

RECURSIVE ISqrt(_)
\* floor of the square root
\* the argument and the root of its quarter are bound once, as values
ISqrt(n) ==
    LET Root(m) ==
          IF m < 2 THEN m
          ELSE CHOOSE r \in UNION { { s, s + 1 } : s \in { 2 * ISqrt(m \div 4) } } :
                 r * r <= m /\ (r + 1) * (r + 1) > m
    IN  CHOOSE r \in { Root(m) : m \in { n } } : TRUE

\* Math.round on a value given in tenths
RoundTenths(v) == (v + 5) \div 10

WAITING_FOR_START == "waiting_for_start"

MOVEMENT_IN_PROGRESS == "movement_in_progress"

MOVEMENT_AT_END == "movement_at_end"

RepStates == { WAITING_FOR_START, MOVEMENT_IN_PROGRESS, MOVEMENT_AT_END }

----------------------------------------------------------------------------
(* Landmarks and poses *)

RightShoulder == << 40, 45, 0 >>

LeftShoulder == << 60, 45, 0 >>

Filler == << 50, 55, 0 >>

WristLow == << 50, 80, 0 >>

WristNearLow == << 50, 68, 0 >>

WristHigh == << 50, 20, 0 >>

WristAway == << 90, 50, 60 >>

LeftWristRest == << 62, 50, 0 >>

\* a pose of len landmarks: 11/12 shoulders, 15/16 wrists (right/left)
MkPose(len, rs, ls, rw, lw) ==
    [ i \in 1..len |->
        CASE i - 1 = 11 -> rs
          [] i - 1 = 12 -> ls
          [] i - 1 = 15 -> rw
          [] i - 1 = 16 -> lw
          [] OTHER -> Filler ]

\* the pose argument of processPose: [present |-> FALSE] stands for null
NoPose == [ present |-> FALSE, lm |-> << >> ]

Pose(lm) == [ present |-> TRUE, lm |-> lm ]

\* the poses fed to processPose: no pose, a pose of 15 landmarks, the right
\* wrist at four places, the left arm alone, no wrist at all
LivePoses ==
    { NoPose, Pose(MkPose(15, RightShoulder, LeftShoulder, WristLow, LeftWristRest)) }
    \cup { Pose(MkPose(33, RightShoulder, LeftShoulder, rw, LeftWristRest)) :
             rw \in { WristLow, WristNearLow, WristHigh, WristAway } }
    \cup { Pose(MkPose(33, Null, LeftShoulder, Null, LeftWristRest)),
           Pose(MkPose(33, RightShoulder, LeftShoulder, Null, Null)) }

\* the movement in front of the camera while a template is recorded:
\* arm down, arm up, arm down, ...
RecordedPose(i) ==
    IF i % 2 = 1
    THEN MkPose(33, RightShoulder, LeftShoulder, WristLow, LeftWristRest)
    ELSE MkPose(33, RightShoulder, LeftShoulder, WristHigh, LeftWristRest)

----------------------------------------------------------------------------
(* Frame Recorder: the frame stored for one pose *)

keyIndices == << 11, 12, 13, 14, 15, 16, 23, 24 >>

RECURSIVE FilterBoolean(_)
FilterBoolean(s) ==
    IF s = << >> THEN << >>
    ELSE IF Head(s) = Null THEN FilterBoolean(Tail(s))
         ELSE << Head(s) >> \o FilterBoolean(Tail(s))

frameData(poseLandmarks) ==
    FilterBoolean([ k \in 1..Len(keyIndices) |-> At(poseLandmarks, keyIndices[k]) ])

\* the frames of a recording of n poses: a frame is kept when it has at
\* least 6 landmarks
RECURSIVE recordedFrames(_)
recordedFrames(n) ==
    IF n = 0 THEN << >>
    ELSE IF Len(frameData(RecordedPose(n))) >= 6
         THEN Append(recordedFrames(n - 1), frameData(RecordedPose(n)))
         ELSE recordedFrames(n - 1)

\* the frames of the templates a machine is constructed from
Templates == { recordedFrames(n) : n \in 0..MaxFrames }

----------------------------------------------------------------------------
(* RepetitionStateMachine: construction *)

ValidWrist(w) == w # Null

\* mutant: the wrist looked up at the indices of a live pose only
extractWristPosition_PoseIndices(frame) ==
    IF Len(frame) < 6 THEN Null
    ELSE IF ValidWrist(At(frame, 15)) THEN At(frame, 15)
    ELSE IF ValidWrist(At(frame, 16)) THEN At(frame, 16)
    ELSE Null

extractWristPosition(frame) ==
    IF Len(frame) < 6 THEN Null
    ELSE IF ValidWrist(At(frame, 4)) THEN At(frame, 4)
    ELSE IF ValidWrist(At(frame, 15)) THEN At(frame, 15)
    ELSE IF ValidWrist(At(frame, 5)) THEN At(frame, 5)
    ELSE IF ValidWrist(At(frame, 16)) THEN At(frame, 16)
    ELSE Null

\* the loop of findPeakPosition over frames[i..], with the running peakFrame;
\* hasMin is FALSE while minY is still Infinity
RECURSIVE PeakLoop(_, _, _, _, _)
PeakLoop(frames, i, hasMin, minY, peakFrame) ==
    IF i > Len(frames) THEN peakFrame
    ELSE LET wristPos == extractWristPosition(frames[i])
         IN  IF wristPos # Null /\ (~hasMin \/ wristPos[2] < minY)
             THEN PeakLoop(frames, i + 1, TRUE, wristPos[2], frames[i])
             ELSE PeakLoop(frames, i + 1, hasMin, minY, peakFrame)

findPeakPosition(frames) ==
    extractWristPosition(PeakLoop(frames, 1, FALSE, 0, frames[1]))

initStartPoint(t) ==
    IF Len(t) = 0 THEN Null ELSE extractWristPosition(t[1])

initEndPoint(t) ==
    IF Len(t) = 0 THEN Null ELSE findPeakPosition(t)

DefaultProximityThreshold == 150

stateStabilityThreshold == 500

minTimeBetweenTransitions == 1000

StartTimes == { 0, 250 }

\* the resolution of Date.now()
ClockTick == 1

\* mutant: the constructor leaves both timers at their field initialiser 0
Init_TimersZero ==
    /\ template \in Templates
    /\ now \in StartTimes
    /\ repCount = 0
    /\ repState = WAITING_FOR_START
    /\ proximityThreshold = DefaultProximityThreshold
    /\ startPoint = initStartPoint(template)
    /\ endPoint = initEndPoint(template)
    /\ lastStateChange = Null
    /\ stateStartTime = 0
    /\ lastStateTransitionTime = 0
    /\ result = << >>
    /\ constructedAt = now
    /\ prevTick = << >>
    /\ startSeen = FALSE
    /\ script = << >>
    /\ OffMachineIdle

Init ==
    /\ template \in Templates
    /\ now \in StartTimes
    /\ repCount = 0
    /\ repState = WAITING_FOR_START
    /\ proximityThreshold = DefaultProximityThreshold
    /\ startPoint = initStartPoint(template)
    /\ endPoint = initEndPoint(template)
    /\ lastStateChange = Null
    \* the constructor reads Date.now() twice: the clock may tick in between
    /\ stateStartTime \in { now - ClockTick, now }
    /\ lastStateTransitionTime = now
    /\ result = << >>
    /\ constructedAt = now
    /\ prevTick = << >>
    /\ startSeen = FALSE
    /\ script = << >>
    /\ OffMachineIdle

----------------------------------------------------------------------------
(* RepetitionStateMachine: one tick *)

\* distance in thousandths, rounded to the nearest thousandth
calculate3DDistance(point1, point2) ==
    IF point1 = Null \/ point2 = Null THEN 1000
    ELSE LET dx == point1[1] - point2[1]
             dy == point1[2] - point2[2]
             dz == point1[3] - point2[3]
         IN  (ISqrt(400 * (dx * dx + dy * dy + dz * dz)) + 1) \div 2

\* |armHeight| > 0.1, coordinates in hundredths
ArmMoving(armHeight) == Abs(armHeight) > 10

\* with both arms moving, the arm farther from its shoulder is taken
determineActiveArm_AbsHeight(poseLandmarks) ==
    LET rightWrist == At(poseLandmarks, 15)
        rightShoulder == At(poseLandmarks, 11)
        leftWrist == At(poseLandmarks, 16)
        leftShoulder == At(poseLandmarks, 12)
    IN  IF rightWrist # Null /\ leftWrist # Null /\ rightShoulder # Null /\ leftShoulder # Null
        THEN LET rightArmHeight == rightShoulder[2] - rightWrist[2]
                 leftArmHeight == leftShoulder[2] - leftWrist[2]
                 rightMoving == ArmMoving(rightArmHeight)
                 leftMoving == ArmMoving(leftArmHeight)
             IN  IF rightMoving /\ leftMoving
                 THEN [ activeArm |-> "both",
                        currentWrist |-> IF Abs(rightArmHeight) > Abs(leftArmHeight)
                                         THEN rightWrist ELSE leftWrist ]
                 ELSE IF leftMoving /\ ~rightMoving
                 THEN [ activeArm |-> "left", currentWrist |-> leftWrist ]
                 ELSE [ activeArm |-> "right", currentWrist |-> rightWrist ]
        ELSE IF leftWrist # Null /\ leftShoulder # Null
                /\ (rightWrist = Null \/ rightShoulder = Null)
        THEN [ activeArm |-> "left", currentWrist |-> leftWrist ]
        ELSE [ activeArm |-> "right", currentWrist |-> rightWrist ]

determineActiveArm(poseLandmarks) ==
    LET rightWrist == At(poseLandmarks, 15)
        rightShoulder == At(poseLandmarks, 11)
        leftWrist == At(poseLandmarks, 16)
        leftShoulder == At(poseLandmarks, 12)
    IN  IF rightWrist # Null /\ leftWrist # Null /\ rightShoulder # Null /\ leftShoulder # Null
        THEN LET rightArmHeight == rightShoulder[2] - rightWrist[2]
                 leftArmHeight == leftShoulder[2] - leftWrist[2]
                 rightMoving == ArmMoving(rightArmHeight)
                 leftMoving == ArmMoving(leftArmHeight)
             IN  IF rightMoving /\ leftMoving
                 THEN [ activeArm |-> "both",
                        currentWrist |-> IF rightArmHeight > leftArmHeight
                                         THEN rightWrist ELSE leftWrist ]
                 ELSE IF leftMoving /\ ~rightMoving
                 THEN [ activeArm |-> "left", currentWrist |-> leftWrist ]
                 ELSE [ activeArm |-> "right", currentWrist |-> rightWrist ]
        ELSE IF leftWrist # Null /\ leftShoulder # Null
                /\ (rightWrist = Null \/ rightShoulder = Null)
        THEN [ activeArm |-> "left", currentWrist |-> leftWrist ]
        ELSE [ activeArm |-> "right", currentWrist |-> rightWrist ]

StartReachedMsg == << "Start position reached. Movement beginning." >>

EndReachedMsg == << "End position reached." >>

RepCompleteMsg(n) == << "REP COMPLETE! Total reps: ", n >>

\* mutant: the interval between transitions set to 1500 ms
TransitionBlocked_Long(currentTime) ==
    \/ currentTime - lastStateTransitionTime < 1500
    \/ currentTime - stateStartTime < stateStabilityThreshold

\* mutant: the check of the time since the last transition left out
TransitionBlocked_DwellOnly(currentTime) ==
    currentTime - stateStartTime < stateStabilityThreshold

\* mutant: no debounce at all
TransitionBlocked_Off(currentTime) == FALSE

\* mutant: transitions are held apart by 750 ms only
TransitionBlocked_Short(currentTime) ==
    \/ currentTime - lastStateTransitionTime < 750
    \/ currentTime - stateStartTime < stateStabilityThreshold

\* the two debounce guards: TRUE when the tick returns before the switch
TransitionBlocked(currentTime) ==
    \/ currentTime - lastStateTransitionTime < minTimeBetweenTransitions
    \/ currentTime - stateStartTime < stateStabilityThreshold

\* mutant: the end of the movement is recognised at the start point
SwitchOutcome_StartOnly(distanceToStart, distanceToEnd) ==
    CASE repState = WAITING_FOR_START ->
           IF distanceToStart < proximityThreshold
           THEN [ newState |-> MOVEMENT_IN_PROGRESS, shouldTransition |-> TRUE, count |-> repCount ]
           ELSE [ newState |-> repState, shouldTransition |-> FALSE, count |-> repCount ]
      [] repState = MOVEMENT_IN_PROGRESS ->
           IF distanceToStart < proximityThreshold
           THEN [ newState |-> MOVEMENT_AT_END, shouldTransition |-> TRUE, count |-> repCount ]
           ELSE [ newState |-> repState, shouldTransition |-> FALSE, count |-> repCount ]
      [] repState = MOVEMENT_AT_END ->
           IF distanceToStart < proximityThreshold
           THEN [ newState |-> WAITING_FOR_START, shouldTransition |-> TRUE, count |-> repCount + 1 ]
           ELSE [ newState |-> repState, shouldTransition |-> FALSE, count |-> repCount ]

\* mutant: movement_at_end is never left
SwitchOutcome_StuckAtEnd(distanceToStart, distanceToEnd) ==
    CASE repState = WAITING_FOR_START ->
           IF distanceToStart < proximityThreshold
           THEN [ newState |-> MOVEMENT_IN_PROGRESS, shouldTransition |-> TRUE, count |-> repCount ]
           ELSE [ newState |-> repState, shouldTransition |-> FALSE, count |-> repCount ]
      [] repState = MOVEMENT_IN_PROGRESS ->
           IF distanceToEnd < proximityThreshold
           THEN [ newState |-> MOVEMENT_AT_END, shouldTransition |-> TRUE, count |-> repCount ]
           ELSE [ newState |-> repState, shouldTransition |-> FALSE, count |-> repCount ]
      [] repState = MOVEMENT_AT_END ->
           [ newState |-> repState, shouldTransition |-> FALSE, count |-> repCount ]

\* mutant: the repetition counted on arrival at the end position
SwitchOutcome_CountAtEnd(distanceToStart, distanceToEnd) ==
    CASE repState = WAITING_FOR_START ->
           IF distanceToStart < proximityThreshold
           THEN [ newState |-> MOVEMENT_IN_PROGRESS, shouldTransition |-> TRUE, count |-> repCount ]
           ELSE [ newState |-> repState, shouldTransition |-> FALSE, count |-> repCount ]
      [] repState = MOVEMENT_IN_PROGRESS ->
           IF distanceToEnd < proximityThreshold
           THEN [ newState |-> MOVEMENT_AT_END, shouldTransition |-> TRUE, count |-> repCount + 1 ]
           ELSE [ newState |-> repState, shouldTransition |-> FALSE, count |-> repCount ]
      [] repState = MOVEMENT_AT_END ->
           IF distanceToStart < proximityThreshold
           THEN [ newState |-> WAITING_FOR_START, shouldTransition |-> TRUE, count |-> repCount ]
           ELSE [ newState |-> repState, shouldTransition |-> FALSE, count |-> repCount ]

\* mutant: movement_in_progress falls back to waiting_for_start when the
\* wrist is at the start again
SwitchOutcome_FallBack(distanceToStart, distanceToEnd) ==
    CASE repState = WAITING_FOR_START ->
           IF distanceToStart < proximityThreshold
           THEN [ newState |-> MOVEMENT_IN_PROGRESS, shouldTransition |-> TRUE, count |-> repCount ]
           ELSE [ newState |-> repState, shouldTransition |-> FALSE, count |-> repCount ]
      [] repState = MOVEMENT_IN_PROGRESS ->
           IF distanceToEnd < proximityThreshold
           THEN [ newState |-> MOVEMENT_AT_END, shouldTransition |-> TRUE, count |-> repCount ]
           ELSE IF distanceToStart < proximityThreshold
           THEN [ newState |-> WAITING_FOR_START, shouldTransition |-> TRUE, count |-> repCount ]
           ELSE [ newState |-> repState, shouldTransition |-> FALSE, count |-> repCount ]
      [] repState = MOVEMENT_AT_END ->
           IF distanceToStart < proximityThreshold
           THEN [ newState |-> WAITING_FOR_START, shouldTransition |-> TRUE, count |-> repCount + 1 ]
           ELSE [ newState |-> repState, shouldTransition |-> FALSE, count |-> repCount ]

\* the switch on repState: the state proposed and the counter after it
SwitchOutcome(distanceToStart, distanceToEnd) ==
    CASE repState = WAITING_FOR_START ->
           IF distanceToStart < proximityThreshold
           THEN [ newState |-> MOVEMENT_IN_PROGRESS, shouldTransition |-> TRUE, count |-> repCount ]
           ELSE [ newState |-> repState, shouldTransition |-> FALSE, count |-> repCount ]
      [] repState = MOVEMENT_IN_PROGRESS ->
           IF distanceToEnd < proximityThreshold
           THEN [ newState |-> MOVEMENT_AT_END, shouldTransition |-> TRUE, count |-> repCount ]
           ELSE [ newState |-> repState, shouldTransition |-> FALSE, count |-> repCount ]
      [] repState = MOVEMENT_AT_END ->
           IF distanceToStart < proximityThreshold
           THEN [ newState |-> WAITING_FOR_START, shouldTransition |-> TRUE, count |-> repCount + 1 ]
           ELSE [ newState |-> repState, shouldTransition |-> FALSE, count |-> repCount ]

TransitionMsg(oldState, newState, count) ==
    IF oldState = WAITING_FOR_START /\ newState = MOVEMENT_IN_PROGRESS THEN StartReachedMsg
    ELSE IF oldState = MOVEMENT_IN_PROGRESS /\ newState = MOVEMENT_AT_END THEN EndReachedMsg
    ELSE IF oldState = MOVEMENT_AT_END /\ newState = WAITING_FOR_START THEN RepCompleteMsg(count)
    ELSE Null

\* a transition restarts the inter-transition timer but not the dwell timer
processStateMachine_KeepDwell(distanceToStart, distanceToEnd, currentTime) ==
    IF TransitionBlocked(currentTime)
    THEN [ repState |-> repState, repCount |-> repCount,
           stateStartTime |-> stateStartTime,
           lastStateTransitionTime |-> lastStateTransitionTime,
           lastStateChange |-> Null ]
    ELSE LET o == SwitchOutcome(distanceToStart, distanceToEnd)
         IN  IF o.shouldTransition /\ o.newState # repState
             THEN [ repState |-> o.newState, repCount |-> o.count,
                    stateStartTime |-> stateStartTime,
                    lastStateTransitionTime |-> currentTime,
                    lastStateChange |-> TransitionMsg(repState, o.newState, o.count) ]
             ELSE [ repState |-> repState, repCount |-> o.count,
                    stateStartTime |-> stateStartTime,
                    lastStateTransitionTime |-> lastStateTransitionTime,
                    lastStateChange |-> Null ]

\* a transition restarts the dwell timer but not the inter-transition timer
processStateMachine_DwellOnly(distanceToStart, distanceToEnd, currentTime) ==
    IF TransitionBlocked(currentTime)
    THEN [ repState |-> repState, repCount |-> repCount,
           stateStartTime |-> stateStartTime,
           lastStateTransitionTime |-> lastStateTransitionTime,
           lastStateChange |-> Null ]
    ELSE LET o == SwitchOutcome(distanceToStart, distanceToEnd)
         IN  IF o.shouldTransition /\ o.newState # repState
             THEN [ repState |-> o.newState, repCount |-> o.count,
                    stateStartTime |-> currentTime,
                    lastStateTransitionTime |-> lastStateTransitionTime,
                    lastStateChange |-> TransitionMsg(repState, o.newState, o.count) ]
             ELSE [ repState |-> repState, repCount |-> o.count,
                    stateStartTime |-> stateStartTime,
                    lastStateTransitionTime |-> lastStateTransitionTime,
                    lastStateChange |-> Null ]

\* the fields of the machine after processStateMachine at currentTime
processStateMachine(distanceToStart, distanceToEnd, currentTime) ==
    IF TransitionBlocked(currentTime)
    THEN [ repState |-> repState, repCount |-> repCount,
           stateStartTime |-> stateStartTime,
           lastStateTransitionTime |-> lastStateTransitionTime,
           lastStateChange |-> Null ]
    ELSE LET o == SwitchOutcome(distanceToStart, distanceToEnd)
         IN  IF o.shouldTransition /\ o.newState # repState
             THEN [ repState |-> o.newState, repCount |-> o.count,
                    stateStartTime |-> currentTime,
                    lastStateTransitionTime |-> currentTime,
                    lastStateChange |-> TransitionMsg(repState, o.newState, o.count) ]
             ELSE [ repState |-> repState, repCount |-> o.count,
                    stateStartTime |-> stateStartTime,
                    lastStateTransitionTime |-> lastStateTransitionTime,
                    lastStateChange |-> Null ]

\* mutant: the lower clamp Math.max(0, ...) left out
calculateAccuracy_NoClamp(state, distanceToStart, distanceToEnd) ==
    CASE state = WAITING_FOR_START -> 1000 - 2 * distanceToStart
      [] state = MOVEMENT_IN_PROGRESS -> Min(1000, 1000 - distanceToStart - distanceToEnd)
      [] state = MOVEMENT_AT_END -> 1000 - 2 * distanceToEnd
      [] OTHER -> 0

\* accuracy in tenths of a percent, distances in thousandths
calculateAccuracy(state, distanceToStart, distanceToEnd) ==
    CASE state = WAITING_FOR_START -> Max(0, 1000 - 2 * distanceToStart)
      [] state = MOVEMENT_IN_PROGRESS ->
           Max(0, Min(1000, 1000 - distanceToStart - distanceToEnd))
      [] state = MOVEMENT_AT_END -> Max(0, 1000 - 2 * distanceToEnd)
      [] OTHER -> 0

generateFeedback(accuracy, state) ==
    CASE state = WAITING_FOR_START ->
           IF accuracy >= 800
           THEN [ feedback |-> "Perfect start position! Begin the movement.",
                  status |-> "excellent", points |-> 5 ]
           ELSE [ feedback |-> "Get into the starting position.",
                  status |-> "poor", points |-> 0 ]
      [] state = MOVEMENT_IN_PROGRESS ->
           IF accuracy >= 800
           THEN [ feedback |-> "Excellent form! Keep moving smoothly.",
                  status |-> "excellent", points |-> 10 ]
           ELSE IF accuracy >= 600
           THEN [ feedback |-> "Good movement, stay on track.",
                  status |-> "good", points |-> 7 ]
           ELSE [ feedback |-> "Focus on your form and movement path.",
                  status |-> "needs_improvement", points |-> 3 ]
      [] state = MOVEMENT_AT_END ->
           IF accuracy >= 800
           THEN [ feedback |-> "Perfect end position! Now return to start.",
                  status |-> "excellent", points |-> 10 ]
           ELSE IF accuracy >= 600
           THEN [ feedback |-> "Good end position. Return to start to complete the rep.",
                  status |-> "good", points |-> 7 ]
           ELSE [ feedback |-> "Raise your arm higher to reach the end position.",
                  status |-> "needs_improvement", points |-> 3 ]
      [] OTHER ->
           [ feedback |-> "Check your form alignment.", status |-> "poor", points |-> 0 ]

\* 'excellent' from 80, the threshold of the status table
determineRepQuality_StatusThreshold(accuracy) ==
    IF accuracy >= 800 THEN "excellent"
    ELSE IF accuracy >= 700 THEN "good"
    ELSE "poor"

determineRepQuality(accuracy) ==
    IF accuracy >= 850 THEN "excellent"
    ELSE IF accuracy >= 700 THEN "good"
    ELSE "poor"

\* mutant: the default result gives the point of a 'poor' form analysis
createDefaultResult_OnePoint(message) ==
    [ repCount |-> repCount, repState |-> repState, repQuality |-> "poor",
      activeArm |-> "right", accuracy |-> 0, feedback |-> message,
      status |-> "poor", points |-> 1,
      debugInfo |-> [ distanceToStart |-> 0, distanceToEnd |-> 0,
                      proximityThreshold |-> proximityThreshold,
                      stateChange |-> Null ] ]

createDefaultResult(message) ==
    [ repCount |-> repCount, repState |-> repState, repQuality |-> "poor",
      activeArm |-> "right", accuracy |-> 0, feedback |-> message,
      status |-> "poor", points |-> 0,
      debugInfo |-> [ distanceToStart |-> 0, distanceToEnd |-> 0,
                      proximityThreshold |-> proximityThreshold,
                      stateChange |-> Null ] ]

NoPoseData == "No pose data available"

NotInitialized == "Template not properly initialized"

NoWrist == "No wrist detected"

\* mutant: the check of startPoint and endPoint left out
RejectReason_NoInitCheck(pose) ==
    IF ~pose.present \/ Len(pose.lm) < 16 THEN << NoPoseData >>
    ELSE IF determineActiveArm(pose.lm).currentWrist = Null THEN << NoWrist >>
    ELSE Null

\* the reason processPose rejects the pose, or Null when the tick is scored
RejectReason(pose) ==
    IF ~pose.present \/ Len(pose.lm) < 16 THEN << NoPoseData >>
    ELSE IF startPoint = Null \/ endPoint = Null THEN << NotInitialized >>
    ELSE IF determineActiveArm(pose.lm).currentWrist = Null THEN << NoWrist >>
    ELSE Null

\* the result of a scored tick, m being the machine after processStateMachine
\* mutant: accuracy and quality computed from the state before the transition
ScoredResult_BeforeTransition(m, activeArm, distanceToStart, distanceToEnd) ==
    LET accuracy == calculateAccuracy(repState, distanceToStart, distanceToEnd)
        f == generateFeedback(accuracy, m.repState)
    IN  [ repCount |-> m.repCount, repState |-> m.repState,
          repQuality |-> determineRepQuality(accuracy),
          activeArm |-> activeArm, accuracy |-> RoundTenths(accuracy),
          feedback |-> f.feedback, status |-> f.status, points |-> f.points,
          debugInfo |-> [ distanceToStart |-> distanceToStart,
                          distanceToEnd |-> distanceToEnd,
                          proximityThreshold |-> proximityThreshold,
                          stateChange |-> m.lastStateChange ] ]

ScoredResult(m, activeArm, distanceToStart, distanceToEnd) ==
    LET accuracy == calculateAccuracy(m.repState, distanceToStart, distanceToEnd)
        f == generateFeedback(accuracy, m.repState)
    IN  [ repCount |-> m.repCount, repState |-> m.repState,
          repQuality |-> determineRepQuality(accuracy),
          activeArm |-> activeArm, accuracy |-> RoundTenths(accuracy),
          feedback |-> f.feedback, status |-> f.status, points |-> f.points,
          debugInfo |-> [ distanceToStart |-> distanceToStart,
                          distanceToEnd |-> distanceToEnd,
                          proximityThreshold |-> proximityThreshold,
                          stateChange |-> m.lastStateChange ] ]

\* the wrist is within the threshold of the target of the current state
InRangeOfTarget(distanceToStart, distanceToEnd) ==
    IF repState = MOVEMENT_IN_PROGRESS
    THEN distanceToEnd < proximityThreshold
    ELSE distanceToStart < proximityThreshold

\* this tick comes less than 500 ms after a tick that changed repState
FollowsChange ==
    /\ prevTick # << >>
    /\ prevTick[1].changed
    /\ now - prevTick[1].time < 500

ProcessPose(pose) ==
    IF RejectReason(pose) # Null
    THEN /\ result' = << createDefaultResult(RejectReason(pose)[1]) >>
         /\ prevTick' = << [ time |-> now, eligible |-> FALSE, changed |-> FALSE,
                              followsChange |-> FollowsChange ] >>
         /\ UNCHANGED << template, machineVars, now, constructedAt, startSeen >>
    ELSE LET a == determineActiveArm(pose.lm)
             distanceToStart == calculate3DDistance(a.currentWrist, startPoint)
             distanceToEnd == calculate3DDistance(a.currentWrist, endPoint)
             m == processStateMachine(distanceToStart, distanceToEnd, now)
         IN  /\ repState' = m.repState
             /\ repCount' = m.repCount
             /\ stateStartTime' = m.stateStartTime
             /\ lastStateTransitionTime' = m.lastStateTransitionTime
             /\ lastStateChange' = m.lastStateChange
             /\ result' = << ScoredResult(m, a.activeArm, distanceToStart, distanceToEnd) >>
             /\ prevTick' = << [ time |-> now,
                                 eligible |-> InRangeOfTarget(distanceToStart, distanceToEnd),
                                 changed |-> m.repState # repState,
                                 followsChange |-> FollowsChange ] >>
             /\ startSeen' = (startSeen \/ (now >= constructedAt + 1000
                                             /\ distanceToStart < proximityThreshold))
             /\ UNCHANGED << template, proximityThreshold, startPoint, endPoint,
                             now, constructedAt >>

\* a reset that also restarts the two timers
Reset_RestartTimers ==
    /\ repCount' = 0
    /\ repState' = WAITING_FOR_START
    /\ lastStateChange' = Null
    /\ stateStartTime' = now
    /\ lastStateTransitionTime' = now
    /\ result' = << >>
    /\ UNCHANGED << template, proximityThreshold, startPoint, endPoint,
                    now, constructedAt, prevTick, startSeen, script >>

\* a reset that clears the count and the state but keeps the last message
Reset_KeepMessage ==
    /\ repCount' = 0
    /\ repState' = WAITING_FOR_START
    /\ result' = << >>
    /\ UNCHANGED << template, proximityThreshold, startPoint, endPoint, lastStateChange,
                    stateStartTime, lastStateTransitionTime, now, constructedAt, prevTick,
                    startSeen, script >>

Reset ==
    /\ repCount' = 0
    /\ repState' = WAITING_FOR_START
    /\ lastStateChange' = Null
    /\ result' = << >>
    /\ UNCHANGED << template, proximityThreshold, startPoint, endPoint, stateStartTime,
                    lastStateTransitionTime, now, constructedAt, prevTick, startSeen, script >>

Thresholds == { 150, 0, 650 }

\* the new threshold also restarts the dwell timer
SetProximityThreshold_Restart(threshold) ==
    /\ proximityThreshold' = threshold
    /\ stateStartTime' = now
    /\ result' = << >>
    /\ UNCHANGED << template, repCount, repState, startPoint, endPoint, lastStateChange,
                    lastStateTransitionTime, now, constructedAt,
                    prevTick, startSeen, script >>

SetProximityThreshold(threshold) ==
    /\ proximityThreshold' = threshold
    /\ result' = << >>
    /\ UNCHANGED << template, repCount, repState, startPoint, endPoint, lastStateChange,
                    stateStartTime, lastStateTransitionTime, now, constructedAt,
                    prevTick, startSeen, script >>

Deltas == { 250, 1000 }

\* the clock read by Date.now() moves on between calls; prevTick is kept
\* while the last tick is less than the dwell time old
Advance(d) ==
    /\ now + d <= MaxTime
    /\ now' = now + d
    /\ result' = << >>
    /\ prevTick' = IF prevTick # << >> /\ now + d - prevTick[1].time < stateStabilityThreshold
                   THEN prevTick ELSE << >>
    /\ UNCHANGED << template, machineVars, constructedAt, startSeen >>

Next ==
    \/ \E pose \in LivePoses : ProcessPose(pose) /\ UNCHANGED << script, offMachineVars >>
    \/ Reset /\ UNCHANGED offMachineVars
    \/ \E threshold \in Thresholds : SetProximityThreshold(threshold) /\ UNCHANGED offMachineVars
    \/ \E d \in Deltas : Advance(d) /\ UNCHANGED << script, offMachineVars >>

Spec == Init /\ [][Next]_vars

----------------------------------------------------------------------------
(* The start-end-start scenario: a fresh machine with the default          *)
(* threshold gets three ticks, the active wrist exactly at startPoint, at  *)
(* endPoint and at startPoint again, consecutive ticks at least 1100 ms    *)
(* apart; the first tick comes any time after construction.                *)

\* the poses whose active wrist is exactly at point
PosesAt(point) ==
    { pose \in LivePoses :
        /\ pose.present
        /\ Len(pose.lm) >= 16
        /\ determineActiveArm(pose.lm).currentWrist = point }

ScriptTarget == IF Len(script) = 1 THEN endPoint ELSE startPoint

CycleInit ==
    /\ Init
    /\ startPoint # Null
    /\ endPoint # Null

CycleTick ==
    /\ Len(script) < 3
    /\ script # << >> => now - script[Len(script)].time >= 1100
    /\ \E pose \in PosesAt(ScriptTarget) :
         /\ ProcessPose(pose)
         /\ script' = Append(script, [ time |-> now, state |-> repState' ])
    /\ UNCHANGED offMachineVars

CycleWait(d) ==
    /\ Len(script) < 3
    /\ Advance(d)
    /\ UNCHANGED << script, offMachineVars >>

CycleNext ==
    \/ CycleTick
    \/ \E d \in Deltas : CycleWait(d)

SpecCycle == CycleInit /\ [][CycleNext]_vars

----------------------------------------------------------------------------
(* The wrist held at the target of the current state: every tick brings    *)
(* a pose whose wrist is at startPoint (waiting_for_start,                  *)
(* movement_at_end) or at endPoint (movement_in_progress), ticks keep       *)
(* arriving and the clock keeps advancing.                                  *)

HoldTarget == IF repState = MOVEMENT_IN_PROGRESS THEN endPoint ELSE startPoint

HoldTick ==
    /\ \E pose \in PosesAt(HoldTarget) : ProcessPose(pose)
    /\ UNCHANGED << script, offMachineVars >>

HoldWait(d) ==
    /\ Advance(d)
    /\ UNCHANGED << script, offMachineVars >>

HoldNext ==
    \/ HoldTick
    \/ \E d \in Deltas : HoldWait(d)

SpecHold ==
    /\ CycleInit
    /\ [][HoldNext]_vars
    /\ WF_vars(HoldTick)
    /\ \A d \in Deltas : WF_vars(HoldWait(d))

----------------------------------------------------------------------------
(* A wrist that does not move: every tick of the session brings the pose   *)
(* of the first tick, ticks are at least 1000 ms apart, and the threshold  *)
(* is tuned, if at all, before the first tick.  script is the log of the   *)
(* ticks.                                                                  *)

\* length of the session with a stationary wrist
MaxStationaryTime == 6500

StationaryDeltas == { 1000, 1500 }

StationaryTune(threshold) ==
    /\ script = << >>
    /\ SetProximityThreshold(threshold)
    /\ UNCHANGED offMachineVars

StationaryTick ==
    /\ script # << >> => script[Len(script)].time < now
    /\ \E pose \in LivePoses :
         /\ script # << >> => pose = script[1].pose
         /\ ProcessPose(pose)
         /\ script' = Append(script, [ time |-> now, state |-> repState',
                                       count |-> repCount', pose |-> pose ])
    /\ UNCHANGED offMachineVars

StationaryWait(d) ==
    /\ now + d <= MaxStationaryTime
    /\ now' = now + d
    /\ result' = << >>
    /\ prevTick' = << >>
    /\ UNCHANGED << template, machineVars, constructedAt, startSeen, script, offMachineVars >>

StationaryNext ==
    \/ \E threshold \in Thresholds : StationaryTune(threshold)
    \/ StationaryTick
    \/ \E d \in StationaryDeltas : StationaryWait(d)

SpecStationary == CycleInit /\ [][StationaryNext]_vars

ScriptDone == Len(script) = 3

ScriptStates == [ i \in 1..Len(script) |-> script[i].state ]

----------------------------------------------------------------------------
(* VoiceFeedbackSystem (src/src/utils/voiceFeedback.ts).  The calls of     *)
(* provideFeedback get any StateMachineResult the machine can return, any  *)
(* form analysis, any repetition count and either outcome of the random    *)
(* draw.                                                                   *)

\* the machine's variables, constant while the voice system is examined
engineVars == << template, machineVars, result, constructedAt, prevTick, startSeen, script >>

MachineIdle ==
    /\ template = << >>
    /\ repCount = 0
    /\ repState = WAITING_FOR_START
    /\ proximityThreshold = DefaultProximityThreshold
    /\ startPoint = Null
    /\ endPoint = Null
    /\ lastStateChange = Null
    /\ stateStartTime = now
    /\ lastStateTransitionTime = now
    /\ result = << >>
    /\ constructedAt = now
    /\ prevTick = << >>
    /\ startSeen = FALSE
    /\ script = << >>

feedbackCooldown == 3000

\* Date.now() at construction, in milliseconds since 1970: far beyond the cooldown
VoiceEpoch == 10000

\* length of the session
MaxVoiceTime == 5000

\* highest repetition count passed in
MaxRep == 2

\* the empty string
NoText == << >>

Qualities == { "excellent", "good", "poor" }

\* null (the legacy path), or the stateChange and repQuality of a result
StateMachineResults(currentRep) ==
    { << >> } \cup
    { << [ stateChange |-> c, repQuality |-> q ] >> :
        c \in { Null, StartReachedMsg, EndReachedMsg, RepCompleteMsg(currentRep) },
        q \in Qualities }

\* accuracy in tenths of a percent
FormAccuracies == { 200, 400, 700, 900, 970 }

FormAnalyses == { << >> } \cup { << [ accuracy |-> a ] >> : a \in FormAccuracies }

\* text.includes(needle) for the transition messages of the machine
Includes(text, needle) ==
    CASE needle = "REP COMPLETE" -> text[1] = RepCompleteMsg(0)[1]
      [] needle = "Start position reached" -> text = StartReachedMsg
      [] needle = "End position reached" -> text = EndReachedMsg

\* stateMachineResult?.debugInfo?.stateChange
StateChangeOf(stateMachineResult) ==
    IF stateMachineResult = << >> THEN Null ELSE stateMachineResult[1].stateChange

getRepCompletionFeedback(rep, stateMachineResult) ==
    LET quality == IF stateMachineResult = << >> THEN "good"
                   ELSE stateMachineResult[1].repQuality
    IN  CASE quality = "excellent" ->
               << "Excellent! Rep ", rep, " completed with perfect form. Keep it up!" >>
          [] quality = "good" ->
               << "Great job! Rep ", rep, " completed. Good form!" >>
          [] quality = "poor" ->
               << "Rep ", rep,
                  " completed, but focus on your form. Try to move more smoothly." >>
          [] OTHER -> << "Rep ", rep, " completed!" >>

getStateChangeFeedback(stateMachineResult) ==
    LET stateChange == stateMachineResult[1].stateChange
    IN  IF Includes(stateChange, "Start position reached")
        THEN << "Good starting position. Now raise your arms smoothly." >>
        ELSE IF Includes(stateChange, "End position reached")
        THEN << "Great! Hold briefly, then lower back down." >>
        ELSE IF Includes(stateChange, "REP COMPLETE")
        THEN << "Rep completed! Return to starting position for the next rep." >>
        ELSE NoText

\* the analysis carries no feedback text here: formAnalysis.feedback || ''
getFormCorrectionFeedback(formAnalysis) ==
    LET accuracy == formAnalysis[1].accuracy
    IN  IF accuracy < 300
        THEN << "Your form needs work. Slow down and focus on the movement pattern." >>
        ELSE IF accuracy < 500
        THEN << "Try to match the template movement more closely." >>
        ELSE NoText

getEncouragementFeedback(formAnalysis) ==
    LET accuracy == formAnalysis[1].accuracy
    IN  IF accuracy > 950
        THEN << "Outstanding form! You're doing this perfectly!" >>
        ELSE IF accuracy > 850
        THEN << "Excellent form! Keep moving smoothly." >>
        ELSE IF accuracy > 750
        THEN << "Great form! You're on the right track." >>
        ELSE NoText

RepBranch == "rep completion"

StateBranch == "state change"

FormBranch == "form correction"

PraiseBranch == "encouragement"

NoBranch == "none"

\* the if / else-if chain with poor accuracy tested before the state change
FeedbackBranch_FormFirst(stateMachineResult, formAnalysis, currentRep, draw) ==
    IF currentRep > voice.lastRepCount THEN RepBranch
    ELSE IF formAnalysis # << >> /\ formAnalysis[1].accuracy < 500 THEN FormBranch
    ELSE IF /\ StateChangeOf(stateMachineResult) # Null
            /\ ~Includes(StateChangeOf(stateMachineResult), "REP COMPLETE") THEN StateBranch
    ELSE IF formAnalysis # << >> /\ formAnalysis[1].accuracy > 850 /\ draw THEN PraiseBranch
    ELSE NoBranch

\* the branch of the if / else-if chain that is entered; draw is Math.random() < 0.3
FeedbackBranch(stateMachineResult, formAnalysis, currentRep, draw) ==
    IF currentRep > voice.lastRepCount THEN RepBranch
    ELSE IF /\ StateChangeOf(stateMachineResult) # Null
            /\ ~Includes(StateChangeOf(stateMachineResult), "REP COMPLETE") THEN StateBranch
    ELSE IF formAnalysis # << >> /\ formAnalysis[1].accuracy < 500 THEN FormBranch
    ELSE IF formAnalysis # << >> /\ formAnalysis[1].accuracy > 850 /\ draw THEN PraiseBranch
    ELSE NoBranch

\* a cooldown that never ends once something was said
InCooldown_Latched(currentTime) == voice.lastFeedbackTime # 0

\* a cooldown of one second
InCooldown_Short(currentTime) == currentTime - voice.lastFeedbackTime < 1000

InCooldown(currentTime) == currentTime - voice.lastFeedbackTime < feedbackCooldown

\* mutant: the count is taken before the enabled and cooldown checks
provideFeedback_CountFirst(stateMachineResult, formAnalysis, currentRep, draw) ==
    IF ~voice.enabled \/ InCooldown(now)
    THEN [ voice |-> [ voice EXCEPT
                         !.lastRepCount = IF currentRep > @ THEN currentRep ELSE @ ],
           spoken |-> << >> ]
    ELSE LET branch == FeedbackBranch(stateMachineResult, formAnalysis, currentRep, draw)
             feedbackMessage ==
                 CASE branch = RepBranch ->
                        getRepCompletionFeedback(currentRep, stateMachineResult)
                   [] branch = StateBranch -> getStateChangeFeedback(stateMachineResult)
                   [] branch = FormBranch -> getFormCorrectionFeedback(formAnalysis)
                   [] branch = PraiseBranch -> getEncouragementFeedback(formAnalysis)
                   [] OTHER -> NoText
         IN  [ voice |-> [ voice EXCEPT
                             !.lastRepCount = IF branch = RepBranch THEN currentRep ELSE @,
                             !.lastFeedbackTime = IF feedbackMessage # NoText THEN now ELSE @ ],
               spoken |-> IF feedbackMessage # NoText THEN << feedbackMessage >> ELSE << >> ]

\* the fields after the call and the texts passed to speak()
provideFeedback(stateMachineResult, formAnalysis, currentRep, draw) ==
    IF ~voice.enabled \/ InCooldown(now) THEN [ voice |-> voice, spoken |-> << >> ]
    ELSE LET branch == FeedbackBranch(stateMachineResult, formAnalysis, currentRep, draw)
             feedbackMessage ==
                 CASE branch = RepBranch ->
                        getRepCompletionFeedback(currentRep, stateMachineResult)
                   [] branch = StateBranch -> getStateChangeFeedback(stateMachineResult)
                   [] branch = FormBranch -> getFormCorrectionFeedback(formAnalysis)
                   [] branch = PraiseBranch -> getEncouragementFeedback(formAnalysis)
                   [] OTHER -> NoText
         IN  [ voice |-> [ voice EXCEPT
                             !.lastRepCount = IF branch = RepBranch THEN currentRep ELSE @,
                             !.lastFeedbackTime = IF feedbackMessage # NoText THEN now ELSE @ ],
               spoken |-> IF feedbackMessage # NoText THEN << feedbackMessage >> ELSE << >> ]

ProvideFeedback(stateMachineResult, formAnalysis, currentRep, draw) ==
    LET out == provideFeedback(stateMachineResult, formAnalysis, currentRep, draw)
    IN  /\ voice' = out.voice
        /\ spoken' = out.spoken
        /\ prevCall' = << [ time |-> now,
                            repCompletion |-> currentRep > voice.lastRepCount,
                            spoke |-> out.spoken # << >> ] >>
        /\ spokenAt' = IF out.spoken # << >> THEN << now >> ELSE spokenAt
        /\ UNCHANGED << now, engineVars >>

Toggle ==
    /\ voice' = [ voice EXCEPT !.enabled = ~@ ]
    /\ spoken' = << >>
    /\ UNCHANGED << prevCall, spokenAt, now, engineVars >>

VoiceDeltas == { 500, 3000 }

VoiceAdvance(d) ==
    /\ now + d <= VoiceEpoch + MaxVoiceTime
    /\ now' = now + d
    /\ spoken' = << >>
    /\ UNCHANGED << voice, prevCall, spokenAt, engineVars >>

VoiceInit ==
    /\ now = VoiceEpoch
    /\ MachineIdle
    /\ voice = [ enabled |-> TRUE, lastFeedbackTime |-> 0, lastRepCount |-> 0 ]
    /\ spoken = << >>
    /\ prevCall = << >>
    /\ spokenAt = << >>
    /\ NoCall
    /\ NoRecorder

VoiceNext ==
    \/ \E currentRep \in 0..MaxRep :
         \E stateMachineResult \in StateMachineResults(currentRep) :
           \E formAnalysis \in FormAnalyses :
             \E draw \in BOOLEAN :
               /\ ProvideFeedback(stateMachineResult, formAnalysis, currentRep, draw)
               /\ UNCHANGED offVoiceVars
    \/ Toggle /\ UNCHANGED offVoiceVars
    \/ \E d \in VoiceDeltas : VoiceAdvance(d) /\ UNCHANGED offVoiceVars

SpecVoice == VoiceInit /\ [][VoiceNext]_vars

\* A session in which the page passes the repetition count of its machine,
\* which does not fall.  args holds the count of the last call; ret holds
\* the counts reported and left unspoken since the last utterance, and the
\* rep-completion utterances made so far.
AnnounceInit ==
    /\ now = VoiceEpoch
    /\ MachineIdle
    /\ voice = [ enabled |-> TRUE, lastFeedbackTime |-> 0, lastRepCount |-> 0 ]
    /\ spoken = << >>
    /\ prevCall = << >>
    /\ spokenAt = << >>
    /\ args = << [ currentRep |-> 0 ] >>
    /\ ret = << [ pending |-> { }, announced |-> << >> ] >>
    /\ NoRecorder

\* the rep-completion texts carry the count between two strings
IsRepText(text) == Len(text) = 3

AnnounceCall ==
    /\ \E currentRep \in args[1].currentRep..MaxRep :
         \E stateMachineResult \in StateMachineResults(currentRep) :
           \E formAnalysis \in FormAnalyses :
             \E draw \in BOOLEAN :
               /\ ProvideFeedback(stateMachineResult, formAnalysis, currentRep, draw)
               /\ args' = << [ currentRep |-> currentRep ] >>
               /\ ret' = << [ pending |->
                                IF spoken' # << >> THEN { }
                                ELSE IF currentRep > voice.lastRepCount
                                THEN ret[1].pending \cup { currentRep }
                                ELSE ret[1].pending,
                              announced |->
                                IF spoken' # << >> /\ IsRepText(spoken'[1])
                                THEN Append(ret[1].announced,
                                            [ time |-> now, rep |-> spoken'[1][2],
                                              pending |-> ret[1].pending ])
                                ELSE ret[1].announced ] >>
    /\ UNCHANGED recorderVars

AnnounceNext ==
    \/ AnnounceCall
    \/ Toggle /\ UNCHANGED offVoiceVars
    \/ \E d \in VoiceDeltas : VoiceAdvance(d) /\ UNCHANGED offVoiceVars

SpecAnnounce == AnnounceInit /\ [][AnnounceNext]_vars

\* one provideFeedback call examined with its arguments in view: the system
\* is in any state a session leaves it in, 3000 ms or more after construction
VoiceStates ==
    { v \in [ enabled : BOOLEAN,
              lastFeedbackTime : { 0, now - 500, now - feedbackCooldown },
              lastRepCount : 0..MaxRep ] :
        v.lastRepCount > 0 => v.lastFeedbackTime # 0 }

FeedbackArgs ==
    UNION { [ stateMachineResult : StateMachineResults(currentRep),
              formAnalysis : FormAnalyses,
              currentRep : { currentRep },
              draw : BOOLEAN ] : currentRep \in 0..MaxRep }

FeedbackCallInit ==
    /\ now = VoiceEpoch + feedbackCooldown
    /\ MachineIdle
    /\ voice \in VoiceStates
    /\ spoken = << >>
    /\ prevCall = << >>
    /\ spokenAt = IF voice.lastFeedbackTime = 0 THEN << >> ELSE << voice.lastFeedbackTime >>
    /\ \E a \in FeedbackArgs : args = << a >>
    /\ ret = << >>
    /\ NoRecorder

\* provideFeedback returns nothing: ret only marks the call as made
FeedbackCall ==
    /\ ret = << >>
    /\ ProvideFeedback(args[1].stateMachineResult, args[1].formAnalysis,
                       args[1].currentRep, args[1].draw)
    /\ ret' = << Null >>
    /\ UNCHANGED << args, recorderVars >>

SpecFeedbackCall == FeedbackCallInit /\ [][FeedbackCall]_vars

----------------------------------------------------------------------------
(* The VoiceFeedbackSystem of src/unnamed/part_005, lines 1-351: an 8 s    *)
(* cooldown and a form correction that waits for repeated poor form.       *)

feedbackCooldownSpaced == 8000

\* length of the session with the spaced system
MaxSpacedTime == 12000

\* highest count of consecutive form issues followed
MaxFormIssues == 3

\* the spaced system keeps form-tracking fields the other one lacks
IsSpaced == "consecutiveFormIssues" \in DOMAIN voice

FormAccuraciesSpaced == { 100, 200, 400, 970 }

FormAnalysesSpaced == { << >> } \cup { << [ accuracy |-> a ] >> : a \in FormAccuraciesSpaced }

getRepCompletionFeedbackSpaced(rep, stateMachineResult) ==
    LET quality == IF stateMachineResult = << >> THEN "good"
                   ELSE stateMachineResult[1].repQuality
    IN  CASE quality = "excellent" ->
               IF rep = 10
               THEN << "Perfect! You've completed all 10 reps with excellent form. Great job!" >>
               ELSE IF rep >= 7
               THEN << "Outstanding! Rep ", rep, " was perfect. You're almost done!" >>
               ELSE << "Excellent form on rep ", rep, "! Keep that precision going." >>
          [] quality = "good" ->
               IF rep = 10
               THEN << "Great work! All 10 reps completed. Your form improved throughout the session." >>
               ELSE IF rep >= 7
               THEN << "Good rep ", rep, "! You're in the final stretch." >>
               ELSE << "Solid rep ", rep, ". Good form!" >>
          [] quality = "poor" ->
               IF rep = 10
               THEN << "Rep ", rep, " completed. Focus on form for your next session." >>
               ELSE << "Rep ", rep, " done. Try to move more smoothly on the next one." >>
          [] OTHER -> << "Rep ", rep, " completed!" >>

getStateChangeFeedbackSpaced(stateMachineResult) ==
    LET stateChange == stateMachineResult[1].stateChange
    IN  IF Includes(stateChange, "Start position reached")
        THEN << "Perfect starting position. Now raise your arms smoothly to shoulder level." >>
        ELSE IF Includes(stateChange, "End position reached")
        THEN << "Great! Hold this position briefly, then lower with control." >>
        ELSE NoText

\* the analysis carries no phase and no feedback text here
getIntelligentFormCorrectionFeedback(formAnalysis) ==
    LET accuracy == formAnalysis[1].accuracy
    IN  IF accuracy < 150
        THEN << "Focus on the movement pattern. Start with arms down, raise to shoulder level, hold briefly, then lower smoothly." >>
        ELSE IF accuracy < 250
        THEN << "The movement is there, but try to make it more controlled. Raise and lower your arms more smoothly." >>
        ELSE << "Try to match the movement pattern more closely. Focus on raising your arms to shoulder level." >>

getEncouragementFeedbackSpaced(formAnalysis) ==
    LET accuracy == formAnalysis[1].accuracy
    IN  IF accuracy > 980
        THEN << "Perfect form! You're doing this exactly right." >>
        ELSE IF accuracy > 950
        THEN << "Excellent form! Keep up this precision." >>
        ELSE NoText

\* draw is Math.random() < 0.1
FeedbackBranchSpaced(stateMachineResult, formAnalysis, currentRep, draw) ==
    IF currentRep > voice.lastRepCount THEN RepBranch
    ELSE IF /\ StateChangeOf(stateMachineResult) # Null
            /\ ~Includes(StateChangeOf(stateMachineResult), "REP COMPLETE") THEN StateBranch
    ELSE IF /\ formAnalysis # << >>
            /\ formAnalysis[1].accuracy < 250
            /\ formAnalysis[1].accuracy < voice.lastFormAccuracy
            /\ voice.consecutiveFormIssues >= 2 THEN FormBranch
    ELSE IF formAnalysis # << >> /\ formAnalysis[1].accuracy > 950 /\ draw THEN PraiseBranch
    ELSE NoBranch

InCooldownSpaced(currentTime) ==
    currentTime - voice.lastFeedbackTime < feedbackCooldownSpaced

provideFeedbackSpaced(stateMachineResult, formAnalysis, currentRep, draw) ==
    IF ~voice.enabled \/ InCooldownSpaced(now) THEN [ voice |-> voice, spoken |-> << >> ]
    ELSE LET branch == FeedbackBranchSpaced(stateMachineResult, formAnalysis, currentRep, draw)
             feedbackMessage ==
                 CASE branch = RepBranch ->
                        getRepCompletionFeedbackSpaced(currentRep, stateMachineResult)
                   [] branch = StateBranch -> getStateChangeFeedbackSpaced(stateMachineResult)
                   [] branch = FormBranch -> getIntelligentFormCorrectionFeedback(formAnalysis)
                   [] branch = PraiseBranch -> getEncouragementFeedbackSpaced(formAnalysis)
                   [] OTHER -> NoText
             issues == CASE branch = RepBranch -> 0
                         [] branch = FormBranch -> voice.consecutiveFormIssues + 1
                         [] OTHER -> voice.consecutiveFormIssues
             tracked == IF formAnalysis = << >> THEN issues
                        ELSE IF formAnalysis[1].accuracy < 300 THEN issues + 1
                        ELSE Max(0, issues - 1)
         IN  [ voice |-> [ voice EXCEPT
                             !.lastRepCount = IF branch = RepBranch THEN currentRep ELSE @,
                             !.consecutiveFormIssues = tracked,
                             !.lastFormAccuracy = IF formAnalysis = << >> THEN @
                                                  ELSE formAnalysis[1].accuracy,
                             !.lastFeedbackTime = IF feedbackMessage # NoText THEN now ELSE @ ],
               spoken |-> IF feedbackMessage # NoText THEN << feedbackMessage >> ELSE << >> ]

ProvideFeedbackSpaced(stateMachineResult, formAnalysis, currentRep, draw) ==
    LET out == provideFeedbackSpaced(stateMachineResult, formAnalysis, currentRep, draw)
    IN  /\ out.voice.consecutiveFormIssues <= MaxFormIssues
        /\ voice' = out.voice
        /\ spoken' = out.spoken
        /\ prevCall' = << [ time |-> now,
                            repCompletion |-> currentRep > voice.lastRepCount,
                            spoke |-> out.spoken # << >> ] >>
        /\ spokenAt' = IF out.spoken # << >> THEN << now >> ELSE spokenAt
        /\ UNCHANGED << now, engineVars >>

SpacedDeltas == { 4000 }

SpacedAdvance(d) ==
    /\ now + d <= VoiceEpoch + MaxSpacedTime
    /\ now' = now + d
    /\ spoken' = << >>
    /\ UNCHANGED << voice, prevCall, spokenAt, engineVars >>

SpacedInit ==
    /\ now = VoiceEpoch
    /\ MachineIdle
    /\ voice = [ enabled |-> TRUE, lastFeedbackTime |-> 0, lastRepCount |-> 0,
                 consecutiveFormIssues |-> 0, lastFormAccuracy |-> 1000 ]
    /\ spoken = << >>
    /\ prevCall = << >>
    /\ spokenAt = << >>
    /\ NoCall
    /\ NoRecorder

SpacedNext ==
    \/ \E currentRep \in 0..MaxRep :
         \E stateMachineResult \in StateMachineResults(currentRep) :
           \E formAnalysis \in FormAnalysesSpaced :
             \E draw \in BOOLEAN :
               /\ ProvideFeedbackSpaced(stateMachineResult, formAnalysis, currentRep, draw)
               /\ UNCHANGED offVoiceVars
    \/ Toggle /\ UNCHANGED offVoiceVars
    \/ \E d \in SpacedDeltas : SpacedAdvance(d) /\ UNCHANGED offVoiceVars

\* either system, chosen at construction
VariantsNext ==
    \/ ~IsSpaced /\ VoiceNext
    \/ IsSpaced /\ SpacedNext

SpecVoiceVariants == (VoiceInit \/ SpacedInit) /\ [][VariantsNext]_vars

----------------------------------------------------------------------------
(* Form Analyzer (src/src/utils/formAnalysis.ts).  Its accuracy is kept    *)
(* exact in units of 1/3000 percent; the accuracy of a result is rounded   *)
(* to a whole percent as Math.round does.  The feedback text of a scored   *)
(* result is left out.                                                     *)

\* units of accuracy per percent
FormScale == 3000

WristNearShoulder == << 45, 40, 0 >>

WristRaised == << 36, 33, 3 >>

LeftWristHigh == << 62, 15, 0 >>

LeftWristLevel == << 62, 20, 0 >>

\* a pose of len landmarks with the arm landmarks given and those of gone missing
ArmPose(len, rs, ls, rw, lw, gone) ==
    [ i \in 1..len |->
        CASE i - 1 = 11 -> rs
          [] i - 1 = 12 -> ls
          [] i - 1 = 15 -> rw
          [] i - 1 = 16 -> lw
          [] (i - 1) \in gone -> Null
          [] OTHER -> Filler ]

PoseLengths == { 16, 17, 33 }

GoneSets == { {}, { 23, 24 }, { 13, 14, 23, 24 } }

ArmPoses ==
    { ArmPose(len, rs, ls, rw, lw, gone) :
        len \in PoseLengths,
        rs \in { Null, RightShoulder },
        ls \in { Null, LeftShoulder },
        rw \in { Null, WristLow, WristHigh, WristNearShoulder, WristRaised },
        lw \in { Null, LeftWristRest, LeftWristHigh, LeftWristLevel },
        gone \in GoneSets }

\* the currentPose argument: null, an empty array, or a pose
FormPoses == { NoPose, Pose(<< >>) } \cup { Pose(lm) : lm \in ArmPoses }

\* the template argument: null, or a stored template with its frames
FormTemplates == { << >> } \cup { << [ frames |-> f ] >> : f \in Templates }

\* the outcomes of Math.random() * 20, in units of 1/3000 percent
RestAccuracies == { 0, 30000, 59999 }

extractKeyLandmarks(poseLandmarks) ==
    FilterBoolean([ k \in 1..Len(keyIndices) |-> At(poseLandmarks, keyIndices[k]) ])

\* the arm chosen by analyzeExercisePhase from the extracted landmarks
PhaseArm(currentLandmarks) ==
    LET rightWrist == At(currentLandmarks, 4)
        rightShoulder == At(currentLandmarks, 0)
        leftWrist == At(currentLandmarks, 5)
        leftShoulder == At(currentLandmarks, 1)
    IN  IF rightWrist # Null /\ leftWrist # Null /\ rightShoulder # Null /\ leftShoulder # Null
        THEN LET rightArmHeight == rightShoulder[2] - rightWrist[2]
                 leftArmHeight == leftShoulder[2] - leftWrist[2]
                 rightMoving == ArmMoving(rightArmHeight)
                 leftMoving == ArmMoving(leftArmHeight)
             IN  IF rightMoving /\ leftMoving
                 THEN [ activeArm |-> "both",
                        currentWrist |-> IF rightArmHeight > leftArmHeight
                                         THEN rightWrist ELSE leftWrist,
                        currentShoulder |-> IF rightArmHeight > leftArmHeight
                                            THEN rightShoulder ELSE leftShoulder ]
                 ELSE IF leftMoving /\ ~rightMoving
                 THEN [ activeArm |-> "left", currentWrist |-> leftWrist,
                        currentShoulder |-> leftShoulder ]
                 ELSE [ activeArm |-> "right", currentWrist |-> rightWrist,
                        currentShoulder |-> rightShoulder ]
        ELSE IF leftWrist # Null /\ leftShoulder # Null
                /\ (rightWrist = Null \/ rightShoulder = Null)
        THEN [ activeArm |-> "left", currentWrist |-> leftWrist,
               currentShoulder |-> leftShoulder ]
        ELSE [ activeArm |-> "right", currentWrist |-> rightWrist,
               currentShoulder |-> rightShoulder ]

RECURSIVE RaisedLoop(_, _, _, _, _)
\* the loop over raisedFrames from index i on, best being bestAccuracy so far
RaisedLoop(currentLandmarks, raisedFrames, activeArm, i, best) ==
    IF i > Len(raisedFrames) THEN best
    ELSE LET templateFrame == raisedFrames[i]
             w == IF activeArm = "left" THEN 5 ELSE 4
             sh == IF activeArm = "left" THEN 1 ELSE 0
             currentWrist == At(currentLandmarks, w)
             templateWrist == At(templateFrame, w)
             currentShoulder == At(currentLandmarks, sh)
             templateShoulder == At(templateFrame, sh)
             wristAccuracy ==
                 Max(0, 100 * FormScale - calculate3DDistance(currentWrist, templateWrist) * 450)
             shoulderAccuracy ==
                 Max(0, 100 * FormScale
                          - calculate3DDistance(currentShoulder, templateShoulder) * 450)
             frameAccuracy == (7 * wristAccuracy + 3 * shoulderAccuracy) \div 10
         IN  IF \/ Len(templateFrame) < 6
                \/ currentWrist = Null \/ templateWrist = Null
                \/ currentShoulder = Null \/ templateShoulder = Null
             THEN RaisedLoop(currentLandmarks, raisedFrames, activeArm, i + 1, best)
             ELSE RaisedLoop(currentLandmarks, raisedFrames, activeArm, i + 1,
                             Max(best, frameAccuracy))

compareToRaisedTemplate(currentLandmarks, templateFrames, activeArm) ==
    LET raisedFrameStart == (Len(templateFrames) * 7) \div 10
        raisedFrames == SubSeq(templateFrames, raisedFrameStart + 1, Len(templateFrames))
    IN  IF Len(raisedFrames) = 0 THEN 50 * FormScale
        ELSE Max(0, Min(100 * FormScale,
                        RaisedLoop(currentLandmarks, raisedFrames, activeArm, 1, 0)))

\* mutant: the rest phase is scored like the start of the raising phase
analyzeExercisePhase_RestScored(currentLandmarks, templateFrames, random) ==
    LET arm == PhaseArm(currentLandmarks)
        armHeight == arm.currentShoulder[2] - arm.currentWrist[2]
        armHeightPercent == Max(0, Min(1000, (armHeight + 20) * 25))
    IN  IF Len(currentLandmarks) < 8 \/ Len(templateFrames) = 0
        THEN [ phase |-> "rest", phaseProgress |-> 0, accuracy |-> 0, activeArm |-> "right" ]
        ELSE IF arm.currentWrist = Null \/ arm.currentShoulder = Null
        THEN [ phase |-> "rest", phaseProgress |-> 0, accuracy |-> 0, activeArm |-> "right" ]
        ELSE IF armHeightPercent < 100
        THEN [ phase |-> "rest", phaseProgress |-> 0, accuracy |-> 30 * FormScale + random,
               activeArm |-> arm.activeArm ]
        ELSE IF armHeightPercent < 700
        THEN [ phase |-> "raising",
               phaseProgress |-> ((armHeightPercent - 100) * 5) \div 3,
               accuracy |-> 30 * FormScale + (armHeightPercent - 100) * 200,
               activeArm |-> arm.activeArm ]
        ELSE IF armHeightPercent < 900
        THEN [ phase |-> "raised",
               phaseProgress |-> 1000,
               accuracy |-> compareToRaisedTemplate(currentLandmarks, templateFrames,
                                                    arm.activeArm),
               activeArm |-> arm.activeArm ]
        ELSE [ phase |-> "lowering",
               phaseProgress |-> 1000 - (armHeightPercent - 900) * 10,
               accuracy |-> 30 * FormScale + 40 * FormScale
                              - (armHeightPercent - 900) * 1200,
               activeArm |-> arm.activeArm ]

\* random is the outcome of Math.random() * 20
analyzeExercisePhase(currentLandmarks, templateFrames, random) ==
    LET arm == PhaseArm(currentLandmarks)
        armHeight == arm.currentShoulder[2] - arm.currentWrist[2]
        \* armHeightPercent and phaseProgress in thousandths
        armHeightPercent == Max(0, Min(1000, (armHeight + 20) * 25))
    IN  IF Len(currentLandmarks) < 8 \/ Len(templateFrames) = 0
        THEN [ phase |-> "rest", phaseProgress |-> 0, accuracy |-> 0, activeArm |-> "right" ]
        ELSE IF arm.currentWrist = Null \/ arm.currentShoulder = Null
        THEN [ phase |-> "rest", phaseProgress |-> 0, accuracy |-> 0, activeArm |-> "right" ]
        ELSE IF armHeightPercent < 100
        THEN [ phase |-> "rest", phaseProgress |-> 0, accuracy |-> random,
               activeArm |-> arm.activeArm ]
        ELSE IF armHeightPercent < 700
        THEN [ phase |-> "raising",
               phaseProgress |-> ((armHeightPercent - 100) * 5) \div 3,
               accuracy |-> 30 * FormScale + (armHeightPercent - 100) * 200,
               activeArm |-> arm.activeArm ]
        ELSE IF armHeightPercent < 900
        THEN [ phase |-> "raised",
               phaseProgress |-> 1000,
               accuracy |-> compareToRaisedTemplate(currentLandmarks, templateFrames,
                                                    arm.activeArm),
               activeArm |-> arm.activeArm ]
        ELSE [ phase |-> "lowering",
               phaseProgress |-> 1000 - (armHeightPercent - 900) * 10,
               accuracy |-> 30 * FormScale + 40 * FormScale
                              - (armHeightPercent - 900) * 1200,
               activeArm |-> arm.activeArm ]

\* cos of 0, 10, ..., 180 degrees, in thousandths
CosTable ==
    << 1000, 985, 940, 866, 766, 643, 500, 342, 174, 0,
       -174, -342, -500, -643, -766, -866, -940, -985, -1000 >>

\* the angle at point2 in degrees, to the ten below; the magnitudes are in
\* thousandths and the dot product in ten-thousandths
calculateAngle(point1, point2, point3) ==
    IF point1 = Null \/ point2 = Null \/ point3 = Null THEN 0
    ELSE LET dot == (point1[1] - point2[1]) * (point3[1] - point2[1])
                      + (point1[2] - point2[2]) * (point3[2] - point2[2])
                      + (point1[3] - point2[3]) * (point3[3] - point2[3])
             mag1 == calculate3DDistance(point1, point2)
             mag2 == calculate3DDistance(point3, point2)
         IN  IF mag1 = 0 \/ mag2 = 0 THEN 0
             ELSE 10 * (Cardinality({ k \in 1..Len(CosTable) :
                                        \/ k = 1
                                        \/ dot * 100000 <= CosTable[k] * mag1 * mag2 }) - 1)

\* Math.abs(calculateWristAngle(elbow, wrist)) > 30: the forearm is more
\* than 30 degrees off the positive x axis
WristAngleAbove30(elbow, wrist) ==
    IF elbow = Null \/ wrist = Null THEN FALSE
    ELSE LET x == wrist[1] - elbow[1]
             y == wrist[2] - elbow[2]
         IN  IF x = 0 /\ y = 0 THEN FALSE
             ELSE IF x <= 0 THEN TRUE
             ELSE 3 * y * y > x * x

\* the issues of analyzeFormIssues, in the order they are pushed
Issue(triggered, message) == IF triggered THEN << message >> ELSE << >>

RightArmHigher ==
    "Your right arm is higher than your left. Try to keep both arms at the same level."

LeftArmHigher ==
    "Your left arm is higher than your right. Try to keep both arms at the same level."

ArmsHigher ==
    "Your arms need to be higher. Your wrists should be at shoulder level, not below."

KeepRaising == "Keep raising your arms. You're not quite at shoulder level yet."

LowerArms == "Lower your arms completely to the starting position."

RightElbowBent == "Keep your right arm straight. Don't bend your elbow."

LeftElbowBent == "Keep your left arm straight. Don't bend your elbow."

ShouldersLevel ==
    "Keep your shoulders level. Don't shrug or lift one shoulder higher than the other."

BodyStraight ==
    "Keep your body straight. Don't lean to one side during the movement."

RightWristBent == "Keep your right wrist straight. Don't bend it up or down."

LeftWristBent == "Keep your left wrist straight. Don't bend it up or down."

\* the angles argument is not read by the function
analyzeFormIssues(currentLandmarks, phase) ==
    LET rightWrist == At(currentLandmarks, 4)
        rightShoulder == At(currentLandmarks, 0)
        rightElbow == At(currentLandmarks, 2)
        leftWrist == At(currentLandmarks, 5)
        leftShoulder == At(currentLandmarks, 1)
        leftElbow == At(currentLandmarks, 3)
        rightHip == At(currentLandmarks, 6)
        leftHip == At(currentLandmarks, 7)
        rightArmHeight == rightShoulder[2] - rightWrist[2]
        leftArmHeight == leftShoulder[2] - leftWrist[2]
        \* twice averageArmHeight
        armHeights == rightArmHeight + leftArmHeight
        elbows == rightElbow # Null /\ leftElbow # Null
        hips == rightHip # Null /\ leftHip # Null
    IN  IF Len(currentLandmarks) < 6
        THEN << "Please ensure your full body is visible to the camera." >>
        ELSE IF rightWrist = Null \/ rightShoulder = Null
                  \/ leftWrist = Null \/ leftShoulder = Null
        THEN << "Please stand so your shoulders and arms are clearly visible." >>
        ELSE Issue(Abs(rightArmHeight - leftArmHeight) > 10 /\ phase # "rest",
                   IF rightArmHeight > leftArmHeight THEN RightArmHigher
                   ELSE LeftArmHigher)
             \o (IF phase = "raised" /\ armHeights < 10 THEN << ArmsHigher >>
                 ELSE IF phase = "raising" /\ armHeights < 4 THEN << KeepRaising >>
                 ELSE IF phase = "rest" /\ armHeights > 20 THEN << LowerArms >>
                 ELSE << >>)
             \o Issue(elbows /\ phase # "rest"
                        /\ calculateAngle(rightShoulder, rightElbow, rightWrist) < 160,
                      RightElbowBent)
             \o Issue(elbows /\ phase # "rest"
                        /\ calculateAngle(leftShoulder, leftElbow, leftWrist) < 160,
                      LeftElbowBent)
             \o Issue(hips /\ phase # "rest"
                        /\ Abs((rightHip[2] - rightShoulder[2])
                                 - (leftHip[2] - leftShoulder[2])) > 5,
                      ShouldersLevel)
             \o Issue(hips /\ phase # "rest"
                        /\ Abs((rightHip[1] + leftHip[1])
                                 - (rightShoulder[1] + leftShoulder[1])) > 20,
                      BodyStraight)
             \o Issue(elbows /\ phase # "rest" /\ WristAngleAbove30(rightElbow, rightWrist),
                      RightWristBent)
             \o Issue(elbows /\ phase # "rest" /\ WristAngleAbove30(leftElbow, leftWrist),
                      LeftWristBent)

\* the encouragement of getPhaseBasedFeedback when no issue was found
PhaseEncouragement(phase, phaseProgress) ==
    CASE phase = "rest" -> "Ready to start! Stand with arms relaxed at your sides."
      [] phase = "raising" ->
           IF phaseProgress < 300
           THEN "Good start! Continue raising your arms smoothly."
           ELSE IF phaseProgress < 700
           THEN "Keep going! Raise your arms to shoulder level."
           ELSE "Almost there! Just a bit higher to reach shoulder level."
      [] phase = "raised" -> "Perfect position! Hold briefly, then lower with control."
      [] phase = "lowering" ->
           "Good control! Lower your arms smoothly back to the starting position."
      [] OTHER -> "Focus on the movement pattern - raise to shoulder level, hold, then lower."

\* the issue pushed last is returned
getPhaseBasedFeedback_LastIssue(exerciseAnalysis, currentLandmarks) ==
    LET formIssues == analyzeFormIssues(currentLandmarks, exerciseAnalysis.phase)
    IN  IF Len(formIssues) > 0 THEN formIssues[Len(formIssues)]
        ELSE PhaseEncouragement(exerciseAnalysis.phase, exerciseAnalysis.phaseProgress)

getPhaseBasedFeedback(exerciseAnalysis, currentLandmarks) ==
    LET formIssues == analyzeFormIssues(currentLandmarks, exerciseAnalysis.phase)
    IN  IF Len(formIssues) > 0 THEN formIssues[1]
        ELSE PhaseEncouragement(exerciseAnalysis.phase, exerciseAnalysis.phaseProgress)

\* a zero-confidence result that also awards a point
FormRejected_OnePoint(message) ==
    [ accuracy |-> 0, feedback |-> message, status |-> "poor", points |-> 1 ]

\* the zero-confidence result of the three validations
FormRejected(message) ==
    [ accuracy |-> 0, feedback |-> message, status |-> "poor", points |-> 0 ]

NoTemplateData == "No template data available"

NotEnoughLandmarks == "Not enough pose landmarks detected"

\* Math.round of an accuracy, in percent
RoundPercent(accuracy) == (2 * accuracy + FormScale) \div (2 * FormScale)

\* a 'poor' analysis earns nothing
FormBand_PoorZero(accuracy) ==
    IF accuracy >= 80 * FormScale THEN [ status |-> "excellent", points |-> 10 ]
    ELSE IF accuracy >= 60 * FormScale THEN [ status |-> "good", points |-> 7 ]
    ELSE IF accuracy >= 40 * FormScale THEN [ status |-> "needs_improvement", points |-> 4 ]
    ELSE [ status |-> "poor", points |-> 0 ]

\* lines 98-114, applied to the accuracy before Math.round
FormBand(accuracy) ==
    IF accuracy >= 80 * FormScale THEN [ status |-> "excellent", points |-> 10 ]
    ELSE IF accuracy >= 60 * FormScale THEN [ status |-> "good", points |-> 7 ]
    ELSE IF accuracy >= 40 * FormScale THEN [ status |-> "needs_improvement", points |-> 4 ]
    ELSE [ status |-> "poor", points |-> 1 ]

analyzeForm(currentPose, formTemplate, random) ==
    IF ~currentPose.present \/ Len(currentPose.lm) = 0 THEN FormRejected(NoPoseData)
    ELSE IF formTemplate = << >> \/ Len(formTemplate[1].frames) = 0
    THEN FormRejected(NoTemplateData)
    ELSE LET currentKeyLandmarks == extractKeyLandmarks(currentPose.lm)
             exerciseAnalysis == analyzeExercisePhase(currentKeyLandmarks,
                                                      formTemplate[1].frames, random)
             band == FormBand(exerciseAnalysis.accuracy)
         IN  IF Len(currentKeyLandmarks) < 6 THEN FormRejected(NotEnoughLandmarks)
             ELSE [ accuracy |-> RoundPercent(exerciseAnalysis.accuracy),
                    \* 1 - accuracy / 100, in the accuracy's unit
                    distance |-> 100 * FormScale - exerciseAnalysis.accuracy,
                    feedback |->
                      CASE band.status = "excellent" -> "Perfect form! Keep it up!"
                        [] band.status = "good" -> "Good form, minor adjustments needed"
                        [] band.status = "needs_improvement" ->
                             getPhaseBasedFeedback(exerciseAnalysis, currentKeyLandmarks)
                        [] OTHER -> IF exerciseAnalysis.phase = "rest"
                                    THEN "Start the exercise"
                                    ELSE "Poor form. Please review the instructions.",
                    status |-> band.status,
                    points |-> band.points,
                    phase |-> exerciseAnalysis.phase,
                    phaseProgress |-> exerciseAnalysis.phaseProgress,
                    activeArm |-> exerciseAnalysis.activeArm ]

----------------------------------------------------------------------------
(* One scoring call examined with its arguments in view: analyzeForm on    *)
(* any pose and template, or processPose on any pose by a machine in any   *)
(* state a session brings it to.                                           *)

\* Date.now() at the call, the machine having been constructed at 0
CallTime == 4000

\* the last transition: long enough ago for the guards, or too recent
TransitionTimes == { CallTime - minTimeBetweenTransitions, CallTime - 250 }

\* a wrist 0.077 from the start point of a recorded template
WristBesideLow == << 57, 83, 1 >>

\* poses whose accuracy rounds up to a quality threshold
QualityPoses ==
    { Pose(ArmPose(33, RightShoulder, LeftShoulder, WristBesideLow, LeftWristRest, { })) }

\* the right wrist 0.15 above its shoulder, 0.1 below the raised wrist of
\* a recorded template
WristUp == << 50, 30, 0 >>

\* the right wrist 0.16 above its shoulder, where the lowering phase begins
WristTop == << 50, 29, 0 >>

RaisedPoses ==
    { Pose(ArmPose(33, RightShoulder, LeftShoulder, rw, LeftWristRest, { })) :
        rw \in { WristUp, WristTop } }

\* poses with elbows and hips of their own, for the form-issue detector
IssuePose(rw, re, lw, le, rh, lh) ==
    [ i \in 1..33 |->
        CASE i - 1 = 11 -> RightShoulder
          [] i - 1 = 12 -> LeftShoulder
          [] i - 1 = 13 -> re
          [] i - 1 = 14 -> le
          [] i - 1 = 15 -> rw
          [] i - 1 = 16 -> lw
          [] i - 1 = 23 -> rh
          [] i - 1 = 24 -> lh
          [] OTHER -> Filler ]

\* wrist and elbow of the right arm: lowering, raising, raised, elbow bent,
\* steep forearm, below the shoulder
RightArms ==
    { << << 100, 27, 0 >>, << 70, 36, 0 >> >>,
      << << 100, 44, 0 >>, << 70, 45, 0 >> >>,
      << << 100, 36, 0 >>, << 70, 40, 0 >> >>,
      << << 100, 27, 0 >>, << 70, 60, 0 >> >>,
      << << 70, 27, 0 >>, << 55, 36, 0 >> >>,
      << << 100, 48, 0 >>, << 70, 46, 0 >> >> }

\* wrist and elbow of the left arm: level with the right, steep forearm,
\* slightly raised, at shoulder height, hanging, elbow bent, a little higher
LeftArms ==
    { << << 98, 27, 0 >>, << 79, 36, 0 >> >>,
      << << 98, 27, 0 >>, << 79, 60, 0 >> >>,
      << << 98, 38, 0 >>, << 79, 42, 0 >> >>,
      << << 85, 27, 0 >>, << 72, 36, 0 >> >>,
      << << 98, 40, 0 >>, << 79, 42, 0 >> >>,
      << << 98, 45, 0 >>, << 79, 45, 0 >> >>,
      << << 98, 60, 0 >>, << 79, 52, 0 >> >> }

\* right and left hip: level, one side dropped, shifted to the side
HipPairs ==
    { << << 45, 85, 0 >>, << 55, 85, 0 >> >>,
      << << 45, 95, 0 >>, << 55, 85, 0 >> >>,
      << << 60, 85, 0 >>, << 70, 85, 0 >> >>,
      << << 60, 95, 0 >>, << 70, 85, 0 >> >> }

IssuePoses ==
    { Pose(IssuePose(r[1], r[2], l[1], l[2], h[1], h[2])) :
        r \in RightArms, l \in LeftArms, h \in HipPairs }

MachineAnyState ==
    /\ template \in Templates
    /\ now = CallTime
    /\ repState \in RepStates
    /\ repCount \in (IF repState = WAITING_FOR_START THEN { 0, 1 } ELSE { 0 })
    /\ initStartPoint(template) = Null => repState = WAITING_FOR_START /\ repCount = 0
    /\ proximityThreshold = DefaultProximityThreshold
    /\ startPoint = initStartPoint(template)
    /\ endPoint = initEndPoint(template)
    /\ lastStateChange = Null
    /\ stateStartTime \in TransitionTimes
    /\ lastStateTransitionTime = stateStartTime
    /\ result = << >>
    /\ constructedAt = 0
    /\ prevTick = << >>
    /\ startSeen = FALSE
    /\ script = << >>

ScoringInit ==
    /\ NoVoice
    /\ NoRecorder
    /\ ret = << >>
    /\ \/ /\ MachineAnyState
          /\ \E pose \in FormPoses \cup QualityPoses :
               args = << [ fn |-> "processPose", pose |-> pose ] >>
       \/ /\ now = CallTime
          /\ MachineIdle
          /\ \E currentPose \in FormPoses \cup IssuePoses \cup RaisedPoses :
               \E formTemplate \in FormTemplates :
                 args = << [ fn |-> "analyzeForm", currentPose |-> currentPose,
                             template |-> formTemplate ] >>

ProcessPoseCall ==
    /\ ret = << >>
    /\ args[1].fn = "processPose"
    /\ ProcessPose(args[1].pose)
    /\ ret' = result'
    /\ UNCHANGED << args, script, voiceVars, recorderVars >>

AnalyzeFormCall ==
    /\ ret = << >>
    /\ args[1].fn = "analyzeForm"
    /\ \E random \in RestAccuracies :
         ret' = << analyzeForm(args[1].currentPose, args[1].template, random) >>
    /\ UNCHANGED << args, now, engineVars, voiceVars, recorderVars >>

ScoringNext == ProcessPoseCall \/ AnalyzeFormCall

SpecScoring == ScoringInit /\ [][ScoringNext]_vars

----------------------------------------------------------------------------
(* Frame Recorder (src/src/hooks/useExerciseRecording.ts): a recording is  *)
(* started, fed with poses, stopped and saved under an exercise name.      *)

\* Date.now() when the recorder is mounted
RecorderEpoch == 10000

\* length of the recording session
MaxRecordTime == 2000

\* most frames held by a recording
MaxRecorded == 2

ExerciseNames == { "shoulder abduction", "sky painter" }

\* arm down, arm up, and a pose with five of the eight key landmarks
RecorderPoses ==
    { RecordedPose(1), RecordedPose(2),
      ArmPose(33, Null, LeftShoulder, WristLow, LeftWristRest, { 23, 24 }) }

RecorderInit ==
    /\ now = RecorderEpoch
    /\ MachineIdle
    /\ NoVoice
    /\ NoCall
    /\ recordingState = [ isRecording |-> FALSE, recordedFrames |-> << >>,
                          startTime |-> Null, duration |-> 0 ]
    /\ templateStore = [ n \in ExerciseNames |-> Null ]

startRecording ==
    /\ recordingState' = [ recordingState EXCEPT !.isRecording = TRUE,
                                                 !.recordedFrames = << >>,
                                                 !.startTime = << now >>,
                                                 !.duration = 0 ]
    /\ ret' = << >>
    /\ UNCHANGED << templateStore, args, now, engineVars, voiceVars >>

stopRecording ==
    /\ recordingState' = [ recordingState EXCEPT !.isRecording = FALSE,
                                                 !.startTime = Null ]
    /\ ret' = << >>
    /\ UNCHANGED << templateStore, args, now, engineVars, voiceVars >>

\* a frame is kept however few landmarks it has
recordFrame_AnyFrame(poseLandmarks) ==
    /\ Len(recordingState.recordedFrames) < MaxRecorded
    /\ recordingState' =
         IF recordingState.isRecording
         THEN [ recordingState EXCEPT
                  !.recordedFrames = Append(@, frameData(poseLandmarks)),
                  !.duration = IF recordingState.startTime # Null
                               THEN now - recordingState.startTime[1] ELSE 0 ]
         ELSE recordingState
    /\ ret' = << >>
    /\ UNCHANGED << templateStore, args, now, engineVars, voiceVars >>

recordFrame(poseLandmarks) ==
    /\ Len(recordingState.recordedFrames) < MaxRecorded
    /\ recordingState' =
         IF recordingState.isRecording /\ Len(frameData(poseLandmarks)) >= 6
         THEN [ recordingState EXCEPT
                  !.recordedFrames = Append(@, frameData(poseLandmarks)),
                  !.duration = IF recordingState.startTime # Null
                               THEN now - recordingState.startTime[1] ELSE 0 ]
         ELSE recordingState
    /\ ret' = << >>
    /\ UNCHANGED << templateStore, args, now, engineVars, voiceVars >>

\* the template object built at lines 80-86
NewTemplate(exerciseName) ==
    [ name |-> exerciseName,
      frames |-> recordingState.recordedFrames,
      duration |-> recordingState.duration,
      frameCount |-> Len(recordingState.recordedFrames),
      createdAt |-> now ]

\* the store is written before the template is validated
saveTemplate_StoreFirst(exerciseName) ==
    /\ templateStore' = [ templateStore EXCEPT ![exerciseName] = << NewTemplate(exerciseName) >> ]
    /\ ret' = IF NewTemplate(exerciseName).frameCount = 0
              THEN << Null >> ELSE << NewTemplate(exerciseName) >>
    /\ UNCHANGED << recordingState, args, now, engineVars, voiceVars >>

\* ret is what saveTemplate returns: <<Null>> for null
saveTemplate(exerciseName) ==
    /\ IF NewTemplate(exerciseName).frameCount = 0
       THEN /\ ret' = << Null >>
            /\ UNCHANGED templateStore
       ELSE /\ templateStore' =
                 [ templateStore EXCEPT ![exerciseName] = << NewTemplate(exerciseName) >> ]
            /\ ret' = << NewTemplate(exerciseName) >>
    /\ UNCHANGED << recordingState, args, now, engineVars, voiceVars >>

\* GameplayPage.clearTemplate deletes the exercise's entry of the store
clearTemplate(exerciseName) ==
    /\ templateStore[exerciseName] # Null
    /\ templateStore' = [ templateStore EXCEPT ![exerciseName] = Null ]
    /\ ret' = << >>
    /\ UNCHANGED << recordingState, args, now, engineVars, voiceVars >>

RecorderDeltas == { 1000 }

RecorderAdvance(d) ==
    /\ now + d <= RecorderEpoch + MaxRecordTime
    /\ now' = now + d
    /\ ret' = << >>
    /\ UNCHANGED << recorderVars, args, engineVars, voiceVars >>

RecorderNext ==
    \/ startRecording
    \/ stopRecording
    \/ \E poseLandmarks \in RecorderPoses : recordFrame(poseLandmarks)
    \/ \E exerciseName \in ExerciseNames : saveTemplate(exerciseName)
    \/ \E exerciseName \in ExerciseNames : clearTemplate(exerciseName)
    \/ \E d \in RecorderDeltas : RecorderAdvance(d)

SpecRecorder == RecorderInit /\ [][RecorderNext]_vars

----------------------------------------------------------------------------
(* The three copies of the arm selection applied to one pose:              *)
(* determineActiveArm, analyzeExercisePhase (as analyzeForm calls it, on   *)
(* the extracted key landmarks) and detectRepetition.                      *)

LeftWristLow == << 62, 80, 0 >>

SelectorPoses ==
    { ArmPose(len, rs, ls, rw, lw, gone) :
        len \in PoseLengths,
        rs \in { Null, RightShoulder },
        ls \in { Null, LeftShoulder },
        rw \in { Null, WristLow, WristHigh, WristNearShoulder, WristRaised },
        lw \in { Null, LeftWristRest, LeftWristHigh, LeftWristLevel, LeftWristLow },
        gone \in GoneSets }

\* the arm chosen by detectRepetition from the raw pose
RepetitionArm(poseLandmarks) ==
    LET rightWrist == At(poseLandmarks, 15)
        rightShoulder == At(poseLandmarks, 11)
        leftWrist == At(poseLandmarks, 16)
        leftShoulder == At(poseLandmarks, 12)
    IN  IF rightWrist # Null /\ leftWrist # Null /\ rightShoulder # Null /\ leftShoulder # Null
        THEN LET rightArmHeight == rightShoulder[2] - rightWrist[2]
                 leftArmHeight == leftShoulder[2] - leftWrist[2]
                 rightMoving == ArmMoving(rightArmHeight)
                 leftMoving == ArmMoving(leftArmHeight)
             IN  IF rightMoving /\ leftMoving
                 THEN [ activeArm |-> "both",
                        currentWrist |-> IF rightArmHeight > leftArmHeight
                                         THEN rightWrist ELSE leftWrist,
                        currentShoulder |-> IF rightArmHeight > leftArmHeight
                                            THEN rightShoulder ELSE leftShoulder ]
                 ELSE IF leftMoving /\ ~rightMoving
                 THEN [ activeArm |-> "left", currentWrist |-> leftWrist,
                        currentShoulder |-> leftShoulder ]
                 ELSE [ activeArm |-> "right", currentWrist |-> rightWrist,
                        currentShoulder |-> rightShoulder ]
        ELSE IF leftWrist # Null /\ leftShoulder # Null
                /\ (rightWrist = Null \/ rightShoulder = Null)
        THEN [ activeArm |-> "left", currentWrist |-> leftWrist,
               currentShoulder |-> leftShoulder ]
        ELSE [ activeArm |-> "right", currentWrist |-> rightWrist,
               currentShoulder |-> rightShoulder ]

\* previousAnalysis.accuracy is in percent
detectRepetition(poseLandmarks, previousAnalysis, previousPhase) ==
    LET arm == RepetitionArm(poseLandmarks)
        armHeight == arm.currentShoulder[2] - arm.currentWrist[2]
        isRepComplete == /\ previousPhase # Null
                         /\ previousAnalysis # Null
                         /\ previousPhase[1] = "raised"
                         /\ armHeight < 10
    IN  IF Len(poseLandmarks) < 16
        THEN [ isRepComplete |-> FALSE, repCount |-> 0, repQuality |-> "poor",
               activeArm |-> "right" ]
        ELSE IF arm.currentWrist = Null \/ arm.currentShoulder = Null
        THEN [ isRepComplete |-> FALSE, repCount |-> 0, repQuality |-> "poor",
               activeArm |-> "right" ]
        ELSE [ isRepComplete |-> isRepComplete,
               repCount |-> IF isRepComplete THEN 1 ELSE 0,
               repQuality |-> IF ~isRepComplete THEN "poor"
                              ELSE IF previousAnalysis[1].accuracy >= 85 THEN "excellent"
                              ELSE IF previousAnalysis[1].accuracy >= 70 THEN "good"
                              ELSE "poor",
               activeArm |-> arm.activeArm ]

PreviousAnalyses == { Null, << [ accuracy |-> 90 ] >>, << [ accuracy |-> 75 ] >> }

PreviousPhases == { Null, << "raised" >>, << "rest" >> }

\* the functions that have returned
Called == IF ret = << >> THEN { } ELSE DOMAIN ret[1]

\* ret with the value v returned by the function fn
Returned(fn, v) ==
    << [ f \in Called \cup { fn } |-> IF f = fn THEN v ELSE ret[1][f] ] >>

SelectorsInit ==
    /\ now = CallTime
    /\ MachineIdle
    /\ NoVoice
    /\ NoRecorder
    /\ ret = << >>
    /\ \E poseLandmarks \in SelectorPoses : args = << [ pose |-> poseLandmarks ] >>

\* activeArm is what the function returns, currentWrist the wrist it chose
DetermineActiveArmCall ==
    /\ "determineActiveArm" \notin Called
    /\ ret' = Returned("determineActiveArm", determineActiveArm(args[1].pose))
    /\ UNCHANGED << args, now, engineVars, voiceVars, recorderVars >>

AnalyzeExercisePhaseCall ==
    /\ "analyzeExercisePhase" \notin Called
    /\ \E templateFrames \in Templates \ { << >> } :
         \E random \in RestAccuracies :
           LET currentLandmarks == extractKeyLandmarks(args[1].pose)
               r == analyzeExercisePhase(currentLandmarks, templateFrames, random)
           IN  ret' = Returned("analyzeExercisePhase",
                        [ phase |-> r.phase, accuracy |-> r.accuracy,
                          activeArm |-> r.activeArm,
                          currentWrist |-> IF Len(currentLandmarks) < 8 THEN Null
                                           ELSE PhaseArm(currentLandmarks).currentWrist ])
    /\ UNCHANGED << args, now, engineVars, voiceVars, recorderVars >>

DetectRepetitionCall ==
    /\ "detectRepetition" \notin Called
    /\ \E previousAnalysis \in PreviousAnalyses :
         \E previousPhase \in PreviousPhases :
           LET r == detectRepetition(args[1].pose, previousAnalysis, previousPhase)
           IN  ret' = Returned("detectRepetition",
                        [ isRepComplete |-> r.isRepComplete, repCount |-> r.repCount,
                          repQuality |-> r.repQuality, activeArm |-> r.activeArm,
                          currentWrist |-> IF Len(args[1].pose) < 16 THEN Null
                                           ELSE RepetitionArm(args[1].pose).currentWrist ])
    /\ UNCHANGED << args, now, engineVars, voiceVars, recorderVars >>

SelectorsNext ==
    \/ DetermineActiveArmCall
    \/ AnalyzeExercisePhaseCall
    \/ DetectRepetitionCall

SpecSelectors == SelectorsInit /\ [][SelectorsNext]_vars

----------------------------------------------------------------------------
(* GameplayPage, legacy path (src/src/pages/GameplayPage.tsx 176-247): a   *)
(* tick analyses the pose with analyzeForm and asks detectRepetition       *)
(* whether a repetition was completed.                                     *)

\* the page's cap on currentRep
MaxSessionReps == 10

LegacyPoses ==
    { ArmPose(33, rs, ls, rw, lw, {}) :
        rs \in { Null, RightShoulder },
        ls \in { Null, LeftShoulder },
        rw \in { Null, WristLow, WristHigh, WristNearShoulder, WristRaised },
        lw \in { Null, LeftWristRest, LeftWristHigh, LeftWristLevel, LeftWristLow } }
      \cup { ArmPose(15, RightShoulder, LeftShoulder, WristNearShoulder, LeftWristRest, {}) }

\* the template state of the page, with frames
LegacyTemplates == { t \in FormTemplates : t # << >> /\ Len(t[1].frames) > 0 }

\* mutant: the page remembers that the arm was raised
LegacyRepDetection_Raised(poseLandmarks, analysis) ==
    detectRepetition(poseLandmarks, << analysis >>, << "raised" >>)

\* const repDetection = detectRepetition(poseLandmarks, analysis, null)
LegacyRepDetection(poseLandmarks, analysis) ==
    detectRepetition(poseLandmarks, << analysis >>, Null)

\* currentRep of the page
LegacyCurrentRep == IF ret = << >> THEN 0 ELSE ret[1].currentRep

LegacyInit ==
    /\ now = CallTime
    /\ MachineIdle
    /\ NoVoice
    /\ NoRecorder
    /\ ret = << >>
    /\ \E formTemplate \in LegacyTemplates : args = << [ template |-> formTemplate ] >>

\* analyzeCurrentForm with useStateMachine off; ret keeps the pose, the
\* analysis, what detectRepetition returned and the page's currentRep
LegacyTick ==
    /\ \E poseLandmarks \in LegacyPoses :
         \E random \in RestAccuracies :
           LET analysis == analyzeForm(Pose(poseLandmarks), args[1].template, random)
               repDetection == LegacyRepDetection(poseLandmarks, analysis)
               currentRep == LegacyCurrentRep
           IN  ret' = << [ pose |-> poseLandmarks,
                           analysis |-> analysis,
                           repDetection |-> repDetection,
                           currentRep |->
                             IF repDetection.isRepComplete /\ currentRep < MaxSessionReps
                             THEN IF currentRep + 1 < MaxSessionReps
                                  THEN currentRep + 1 ELSE MaxSessionReps
                             ELSE currentRep ] >>
    /\ UNCHANGED << args, now, engineVars, voiceVars, recorderVars >>

LegacyNext == LegacyTick

SpecLegacy == LegacyInit /\ [][LegacyNext]_vars

----------------------------------------------------------------------------
(* GameplayPage with the state machine in use: the page is mounted for one *)
(* exercise, ticks are fed to the machine and to the Frame Recorder, a     *)
(* template is recorded or cleared, and the voice button is pressed.  args *)
(* holds the page's own state.                                             *)

\* length of the session on the page
MaxPageTime == 3000

\* most RepetitionStateMachine instances constructed in a session
MaxBuilt == 2

PageDeltas == { 1000 }

\* exercise.name
PageExercise == "shoulder abduction"

\* the template a previous session left in the store
StoredTemplate ==
    [ name |-> PageExercise, frames |-> recordedFrames(MaxFrames), duration |-> 1000,
      frameCount |-> Len(recordedFrames(MaxFrames)), createdAt |-> 0 ]

PagePoses == { RecordedPose(1), RecordedPose(2) }

\* the effect on mount: the template of the exercise is loaded from the
\* store and a machine is constructed from it, if there is one
PageInit ==
    /\ now = 0
    /\ NoVoice
    /\ ret = << >>
    /\ recordingState = [ isRecording |-> FALSE, recordedFrames |-> << >>,
                          startTime |-> Null, duration |-> 0 ]
    /\ \E exerciseTemplate \in { Null, << StoredTemplate >> } :
         /\ templateStore = [ n \in ExerciseNames |->
                                IF n = PageExercise THEN exerciseTemplate ELSE Null ]
         /\ args = << [ template |-> exerciseTemplate,
                        stateMachine |-> exerciseTemplate # Null,
                        built |-> IF exerciseTemplate # Null THEN 1 ELSE 0,
                        voiceFeedbackEnabled |-> TRUE,
                        changed |-> FALSE ] >>
         /\ IF exerciseTemplate # Null
            THEN /\ template = exerciseTemplate[1].frames
                 /\ repCount = 0
                 /\ repState = WAITING_FOR_START
                 /\ proximityThreshold = DefaultProximityThreshold
                 /\ startPoint = initStartPoint(template)
                 /\ endPoint = initEndPoint(template)
                 /\ lastStateChange = Null
                 /\ stateStartTime = now
                 /\ lastStateTransitionTime = now
                 /\ result = << >>
                 /\ constructedAt = now
                 /\ prevTick = << >>
                 /\ startSeen = FALSE
                 /\ script = << >>
            ELSE MachineIdle

\* analyzeCurrentForm: the pose is recorded while a recording runs, and is
\* processed by the machine if the page has one
PageTick ==
    /\ recordingState.isRecording => Len(recordingState.recordedFrames) < MaxRecorded
    /\ \E poseLandmarks \in PagePoses :
         /\ recordingState' =
              IF recordingState.isRecording /\ Len(frameData(poseLandmarks)) >= 6
              THEN [ recordingState EXCEPT
                       !.recordedFrames = Append(@, frameData(poseLandmarks)),
                       !.duration = IF recordingState.startTime # Null
                                    THEN now - recordingState.startTime[1] ELSE 0 ]
              ELSE recordingState
         /\ IF args[1].stateMachine
            THEN ProcessPose(Pose(poseLandmarks))
            ELSE UNCHANGED << template, machineVars, now, result, constructedAt,
                              prevTick, startSeen >>
    /\ UNCHANGED << script, args, ret, templateStore, voiceVars >>

\* handleStartRecording, once its countdown is over; a session makes one
\* recording with frames
PageStartRecording ==
    /\ ~recordingState.isRecording
    /\ recordingState.recordedFrames = << >>
    /\ startRecording

\* handleStopRecording: stopRecording, saveTemplate and handleTemplateSaved
PageStopRecording ==
    /\ recordingState.isRecording
    /\ recordingState' = [ recordingState EXCEPT !.isRecording = FALSE,
                                                 !.startTime = Null ]
    /\ LET savedTemplate == IF NewTemplate(PageExercise).frameCount = 0 THEN Null
                            ELSE << NewTemplate(PageExercise) >>
       IN  /\ templateStore' = IF savedTemplate = Null THEN templateStore
                               ELSE [ templateStore EXCEPT ![PageExercise] = savedTemplate ]
           /\ args' = << [ args[1] EXCEPT !.template = savedTemplate, !.changed = TRUE ] >>
    /\ UNCHANGED << ret, now, engineVars, voiceVars >>

\* the Clear button, shown while the page holds a template
PageClearTemplate ==
    /\ args[1].template # Null
    /\ args' = << [ args[1] EXCEPT !.template = Null, !.changed = TRUE ] >>
    /\ templateStore' = [ templateStore EXCEPT ![PageExercise] = Null ]
    /\ UNCHANGED << ret, now, recordingState, engineVars, voiceVars >>

\* the Voice button: voiceFeedbackEnabled is a dependency of the effect
\* that loads the template and constructs the machine, which runs again
PageVoiceButton ==
    /\ args[1].built < MaxBuilt
    /\ LET exerciseTemplate == templateStore[PageExercise]
       IN  IF exerciseTemplate # Null
           THEN /\ args' = << [ args[1] EXCEPT !.voiceFeedbackEnabled = ~@,
                                               !.template = exerciseTemplate,
                                               !.stateMachine = TRUE,
                                               !.built = @ + 1 ] >>
                /\ template' = exerciseTemplate[1].frames
                /\ repCount' = 0
                /\ repState' = WAITING_FOR_START
                /\ proximityThreshold' = DefaultProximityThreshold
                /\ startPoint' = initStartPoint(template')
                /\ endPoint' = initEndPoint(template')
                /\ lastStateChange' = Null
                /\ stateStartTime' = now
                /\ lastStateTransitionTime' = now
                /\ result' = << >>
                /\ constructedAt' = now
                /\ prevTick' = << >>
                /\ startSeen' = FALSE
                /\ UNCHANGED script
           ELSE /\ args' = << [ args[1] EXCEPT !.voiceFeedbackEnabled = ~@ ] >>
                /\ UNCHANGED engineVars
    /\ UNCHANGED << ret, now, recorderVars, voiceVars >>

PageWait(d) ==
    /\ now + d <= MaxPageTime
    /\ now' = now + d
    /\ result' = << >>
    /\ prevTick' = << >>
    /\ UNCHANGED << template, machineVars, constructedAt, startSeen, script, offMachineVars >>

PageNext ==
    \/ PageTick
    \/ PageStartRecording
    \/ PageStopRecording
    \/ PageClearTemplate
    \/ PageVoiceButton
    \/ \E d \in PageDeltas : PageWait(d)

SpecPage == PageInit /\ [][PageNext]_vars

----------------------------------------------------------------------------
(* A RepetitionStateMachine constructed from the template the Frame        *)
(* Recorder made of a recording in which landmarks can be missing.         *)

\* landmarks the pose estimator did not deliver in a recorded pose
RecordingGoneSets == { { }, { 13 }, { 13, 14 }, { 13, 14, 23, 24 } }

RecordingPoses ==
    { ArmPose(33, RightShoulder, LeftShoulder, rw, lw, gone) :
        rw \in { Null, WristLow, WristHigh },
        lw \in { Null, LeftWristRest },
        gone \in RecordingGoneSets }

\* the poses of which recordFrame keeps a frame
KeptPoses(poses) == SelectSeq(poses, LAMBDA p : Len(frameData(p)) >= 6)

\* recordedFrames after recordFrame was called with each of the poses
RecordingOf(poses) ==
    [ i \in 1..Len(KeptPoses(poses)) |-> frameData(KeptPoses(poses)[i]) ]

RECURSIVE PoseSeqs(_)
\* the recordings of at most n poses
PoseSeqs(n) ==
    IF n = 0 THEN { << >> }
    ELSE PoseSeqs(n - 1) \cup
           { Append(q, p) : q \in { r \in PoseSeqs(n - 1) : Len(r) = n - 1 },
                            p \in RecordingPoses }

ConstructInit ==
    /\ now = CallTime
    /\ MachineIdle
    /\ NoVoice
    /\ NoRecorder
    /\ ret = << >>
    /\ \E poses \in PoseSeqs(MaxFrames) : args = << [ poses |-> poses ] >>

\* saveTemplate stores no template without frames, so none is loaded
ConstructCall ==
    /\ ret = << >>
    /\ Len(RecordingOf(args[1].poses)) >= 1
    /\ template' = RecordingOf(args[1].poses)
    /\ startPoint' = initStartPoint(template')
    /\ endPoint' = initEndPoint(template')
    /\ ret' = << [ startPoint |-> startPoint', endPoint |-> endPoint' ] >>
    /\ UNCHANGED << repCount, repState, proximityThreshold, lastStateChange,
                    stateStartTime, lastStateTransitionTime, now, result,
                    constructedAt, prevTick, startSeen, script, args,
                    voiceVars, recorderVars >>

SpecConstruct == ConstructInit /\ [][ConstructCall]_vars

----------------------------------------------------------------------------
(* The copies of the geometry utilities applied to the same points: the    *)
(* distance of RepetitionStateMachine, formAnalysis.ts, poseUtils.ts and   *)
(* storage.ts, and the angle of formAnalysis.ts and storage.ts.  What a    *)
(* call produces is a number, NaN, or a TypeError thrown on reading a      *)
(* coordinate of null.                                                     *)

\* calls made on one choice of points
MaxCalls == 2

Number(v) == [ kind |-> "number", v |-> v ]

NaN == [ kind |-> "NaN" ]

TypeError == [ kind |-> "TypeError" ]

\* formAnalysis.ts
FormCalculate3DDistance(point1, point2) ==
    IF point1 = Null \/ point2 = Null THEN 1000
    ELSE LET dx == point1[1] - point2[1]
             dy == point1[2] - point2[2]
             dz == point1[3] - point2[3]
         IN  (ISqrt(400 * (dx * dx + dy * dy + dz * dz)) + 1) \div 2

\* the depth of the first coordinate stands for the difference of depths
PoseUtilsCalculate3DDistance_OwnDepth(coord1, coord2) ==
    IF coord1 = Null \/ coord2 = Null THEN TypeError
    ELSE LET dx == coord1[1] - coord2[1]
             dy == coord1[2] - coord2[2]
             dz == coord1[3]
         IN  Number((ISqrt(400 * (dx * dx + dy * dy + dz * dz)) + 1) \div 2)

\* poseUtils.ts: coord1.x is read without a check
PoseUtilsCalculate3DDistance(coord1, coord2) ==
    IF coord1 = Null \/ coord2 = Null THEN TypeError
    ELSE LET dx == coord1[1] - coord2[1]
             dy == coord1[2] - coord2[2]
             dz == coord1[3] - coord2[3]
         IN  Number((ISqrt(400 * (dx * dx + dy * dy + dz * dz)) + 1) \div 2)

\* storage.ts
StorageCalculate3DDistance(coord1, coord2) ==
    IF coord1 = Null \/ coord2 = Null THEN TypeError
    ELSE LET dx == coord1[1] - coord2[1]
             dy == coord1[2] - coord2[2]
             dz == coord1[3] - coord2[3]
         IN  Number((ISqrt(400 * (dx * dx + dy * dy + dz * dz)) + 1) \div 2)

\* storage.ts: the angle in the x-y plane, in degrees to the ten below;
\* a zero magnitude makes the quotient 0 / 0
StorageCalculateAngle(point1, point2, point3) ==
    IF point1 = Null \/ point2 = Null \/ point3 = Null THEN TypeError
    ELSE LET x1 == point1[1] - point2[1]
             y1 == point1[2] - point2[2]
             x2 == point3[1] - point2[1]
             y2 == point3[2] - point2[2]
             dotProduct == x1 * x2 + y1 * y2
             magnitude1 == (ISqrt(400 * (x1 * x1 + y1 * y1)) + 1) \div 2
             magnitude2 == (ISqrt(400 * (x2 * x2 + y2 * y2)) + 1) \div 2
         IN  IF magnitude1 = 0 \/ magnitude2 = 0 THEN NaN
             ELSE Number(10 * (Cardinality({ k \in 1..Len(CosTable) :
                                  \/ k = 1
                                  \/ dotProduct * 100000
                                       <= CosTable[k] * magnitude1 * magnitude2 }) - 1))

\* a shoulder, an elbow and a wrist on one line, a point in front of the
\* shoulder, and a missing point
GeometryPoints ==
    { Null, << 40, 45, 0 >>, << 70, 36, 0 >>, << 100, 27, 0 >>, << 40, 45, -10 >> }

GeometryInit ==
    /\ now = CallTime
    /\ MachineIdle
    /\ NoVoice
    /\ NoRecorder
    /\ ret = << >>
    /\ \E a \in GeometryPoints, b \in GeometryPoints, c \in GeometryPoints :
         args = << [ a |-> a, b |-> b, c |-> c ] >>

\* the two points in either order, and a point with itself
PointPairs == { << args[1].a, args[1].b >>, << args[1].b, args[1].a >>,
                << args[1].a, args[1].a >> }

DistanceCalled(fn, pair, value) ==
    /\ Len(ret) < MaxCalls
    /\ ret' = Append(ret, [ fn |-> fn, points |-> pair, value |-> value ])
    /\ UNCHANGED << args, now, engineVars, voiceVars, recorderVars >>

MachineDistanceCall ==
    \E pair \in PointPairs :
      DistanceCalled("RepetitionStateMachine.calculate3DDistance", pair,
                     Number(calculate3DDistance(pair[1], pair[2])))

FormDistanceCall ==
    \E pair \in PointPairs :
      DistanceCalled("formAnalysis.calculate3DDistance", pair,
                     Number(FormCalculate3DDistance(pair[1], pair[2])))

PoseUtilsDistanceCall ==
    \E pair \in PointPairs :
      DistanceCalled("poseUtils.calculate3DDistance", pair,
                     PoseUtilsCalculate3DDistance(pair[1], pair[2]))

StorageDistanceCall ==
    \E pair \in PointPairs :
      DistanceCalled("storage.calculate3DDistance", pair,
                     StorageCalculate3DDistance(pair[1], pair[2]))

AngleCalled(fn, value) ==
    /\ Len(ret) < MaxCalls
    /\ ret' = Append(ret, [ fn |-> fn,
                            points |-> << args[1].a, args[1].b, args[1].c >>,
                            value |-> value ])
    /\ UNCHANGED << args, now, engineVars, voiceVars, recorderVars >>

FormAngleCall ==
    AngleCalled("formAnalysis.calculateAngle",
                Number(calculateAngle(args[1].a, args[1].b, args[1].c)))

StorageAngleCall ==
    AngleCalled("storage.calculateAngle",
                StorageCalculateAngle(args[1].a, args[1].b, args[1].c))

GeometryNext ==
    \/ MachineDistanceCall
    \/ FormDistanceCall
    \/ PoseUtilsDistanceCall
    \/ StorageDistanceCall
    \/ FormAngleCall
    \/ StorageAngleCall

SpecGeometry == GeometryInit /\ [][GeometryNext]_vars

----------------------------------------------------------------------------
(* Claims *)

IsTick == \E pose \in LivePoses : ProcessPose(pose)

\* a step in which a processPose call returns: no other step leaves a result
TickStep == result' # << >>

RejectFeedbacks == { NoPoseData, NotInitialized, NoWrist }

ScoredTickStep == TickStep /\ result'[1].feedback \notin RejectFeedbacks

Scored == result # << >> /\ result[1].feedback \notin RejectFeedbacks

\* C1 (as stated): over any sequence of processPose, reset and
\* setProximityThreshold calls repCount never decreases, and it changes only
\* on a tick that takes the movement_at_end -> waiting_for_start transition.
C1_Original ==
    [][ /\ repCount' >= repCount
        /\ repCount' # repCount =>
             IsTick /\ repState = MOVEMENT_AT_END /\ repState' = WAITING_FOR_START ]_vars

\* C1 (amended): repCount decreases only in reset(), which sets it to 0; no
\* processPose or setProximityThreshold call decreases it, and it increases
\* only on a tick that takes the movement_at_end -> waiting_for_start
\* transition.
C1_RepCountMonotone ==
    [][ /\ repCount' < repCount => (Reset /\ repCount' = 0)
        /\ repCount' > repCount =>
             (IsTick /\ repState = MOVEMENT_AT_END /\ repState' = WAITING_FOR_START) ]_vars

\* a tick made after a completed repetition returned the count unchanged
C1_Witness ==
    /\ repCount = 1
    /\ Scored
    /\ result[1].repCount = 1
    /\ result[1].debugInfo.stateChange = Null

CycleEdge(from, to) ==
    \/ from = WAITING_FOR_START /\ to = MOVEMENT_IN_PROGRESS
    \/ from = MOVEMENT_IN_PROGRESS /\ to = MOVEMENT_AT_END
    \/ from = MOVEMENT_AT_END /\ to = WAITING_FOR_START

\* the steps of the machine along the cycle, the counter following the edge
CycleStep ==
    /\ repState' # repState => CycleEdge(repState, repState')
    /\ repCount' = IF repState = MOVEMENT_AT_END /\ repState' = WAITING_FOR_START
                   THEN repCount + 1 ELSE repCount

\* C2 (as stated): repState changes only along the cycle waiting_for_start ->
\* movement_in_progress -> movement_at_end -> waiting_for_start, and repCount
\* increases by exactly 1 on the movement_at_end -> waiting_for_start edge and
\* changes on no other step.
C2_Original == [][CycleStep]_vars

\* C2 (amended): every step other than reset() follows the cycle and counts
\* exactly 1 on the movement_at_end -> waiting_for_start edge and nothing on
\* any other step; reset() returns to waiting_for_start from any state with
\* repCount 0.
C2_CycleOnly ==
    [][ IF Reset THEN repState' = WAITING_FOR_START /\ repCount' = 0 ELSE CycleStep ]_vars

\* the tick that closes the first cycle
C2_Witness ==
    /\ repCount = 1
    /\ repState = WAITING_FOR_START
    /\ result # << >>
    /\ result[1].debugInfo.stateChange = RepCompleteMsg(1)

\* C3 (as stated): after the three ticks of the scenario repCount is 1 and the
\* ticks moved the machine to movement_in_progress, movement_at_end and
\* waiting_for_start, one transition per tick.
C3_Original ==
    ScriptDone =>
        /\ repCount = 1
        /\ ScriptStates = << MOVEMENT_IN_PROGRESS, MOVEMENT_AT_END, WAITING_FOR_START >>

\* C3 (amended): when the first tick of the scenario comes at least 1000 ms
\* after the construction of the machine, after the three ticks repCount is 1
\* and the ticks moved the machine to movement_in_progress, movement_at_end
\* and waiting_for_start, one transition per tick.
C3_FullCycle ==
    (ScriptDone /\ script[1].time >= constructedAt + 1000) =>
        /\ repCount = 1
        /\ ScriptStates = << MOVEMENT_IN_PROGRESS, MOVEMENT_AT_END, WAITING_FOR_START >>

\* the scenario ran to its end on a template whose end point differs from its start point
C3_Witness ==
    /\ ScriptDone
    /\ script[1].time >= constructedAt + 1000
    /\ startPoint # endPoint
    /\ repCount = 1

\* C4: a scored tick made less than 500 ms after the current state was entered
\* or less than 1000 ms after the last transition leaves repState, repCount,
\* stateStartTime and lastStateTransitionTime unchanged and returns the
\* accuracy, status and feedback of the unchanged state; hence a tick that
\* changes the state has passed both guards.
C4_GuardsSkipTransition ==
    [][ ScoredTickStep =>
            /\ (now - stateStartTime < 500 \/ now - lastStateTransitionTime < 1000) =>
                 /\ UNCHANGED << repState, repCount, stateStartTime, lastStateTransitionTime >>
                 /\ LET r == result'[1]
                        acc == calculateAccuracy(repState, r.debugInfo.distanceToStart,
                                                 r.debugInfo.distanceToEnd)
                    IN  /\ r.accuracy = RoundTenths(acc)
                        /\ r.status = generateFeedback(acc, repState).status
                        /\ r.feedback = generateFeedback(acc, repState).feedback
                        /\ r.repState = repState
            /\ repState' # repState =>
                 (now - stateStartTime >= 500 /\ now - lastStateTransitionTime >= 1000) ]_vars

\* a scored tick in range of its target was held back by the guards
C4_Witness ==
    /\ Scored
    /\ prevTick # << >>
    /\ prevTick[1].time = now
    /\ prevTick[1].eligible
    /\ ~prevTick[1].changed
    /\ now - lastStateTransitionTime < 1000
    /\ repState = MOVEMENT_IN_PROGRESS

\* C5 (as stated): of two consecutive ticks less than 500 ms apart, each with
\* the wrist within the threshold of the target of the state current at that
\* tick, the second does not change repState.
C5_Original ==
    [][ ( /\ TickStep
          /\ prevTick # << >>
          /\ now - prevTick[1].time < 500
          /\ prevTick[1].eligible
          /\ prevTick'[1].eligible ) => repState' = repState ]_vars

\* C5 (amended): of two consecutive ticks less than 500 ms apart of which the
\* first changed repState, the second does not change repState, also when its
\* wrist is within the threshold of the target of the new state.
C5_NoDoubleAdvance ==
    [][ ( /\ TickStep
          /\ prevTick # << >>
          /\ now - prevTick[1].time < 500
          /\ prevTick[1].changed ) => repState' = repState ]_vars

\* a tick in range of the new target came less than 500 ms after a transition
C5_Witness ==
    /\ result # << >>
    /\ prevTick # << >>
    /\ prevTick[1].time = now
    /\ prevTick[1].followsChange
    /\ prevTick[1].eligible
    /\ ~prevTick[1].changed

\* C6: no tick earlier than constructedAt + 1000 changes repState or repCount,
\* whatever the wrist; the first tick at constructedAt + 1000 or later whose
\* wrist is within the threshold of startPoint finds the machine in
\* waiting_for_start and moves it to movement_in_progress.
C6_FirstTransition ==
    [][ TickStep =>
            /\ now < constructedAt + 1000 =>
                 (repState' = repState /\ repCount' = repCount
                  /\ repState = WAITING_FOR_START)
            /\ (~startSeen /\ startSeen') =>
                 (repState = WAITING_FOR_START /\ repState' = MOVEMENT_IN_PROGRESS) ]_vars

\* the first in-range tick after the first second started the movement
C6_Witness ==
    /\ startSeen
    /\ result # << >>
    /\ result[1].debugInfo.stateChange = StartReachedMsg
    /\ lastStateTransitionTime = now
    /\ repCount = 0

\* C7 (as stated): with a template of 0 frames every tick returns
\* 'Template not properly initialized', and repCount stays 0 and repState
\* waiting_for_start.
C7_Original ==
    Len(template) = 0 =>
        /\ repCount = 0
        /\ repState = WAITING_FOR_START
        /\ result # << >> => result[1].feedback = NotInitialized

\* C7 (amended): with a template of 0 frames every tick with a pose of at
\* least 16 landmarks returns 'Template not properly initialized' (a missing
\* or shorter pose returns 'No pose data available'), and repCount stays 0
\* and repState waiting_for_start.
C7_NeverInitialized ==
    /\ [](Len(template) = 0 => repCount = 0 /\ repState = WAITING_FOR_START)
    /\ [][ (TickStep /\ Len(template) = 0) =>
             \A pose \in LivePoses :
               ProcessPose(pose) =>
                 result'[1].feedback =
                   IF pose.present /\ Len(pose.lm) >= 16 THEN NotInitialized ELSE NoPoseData ]_vars

\* a machine without frames answered a full pose long after construction
C7_Witness ==
    /\ Len(template) = 0
    /\ result # << >>
    /\ result[1].feedback = NotInitialized
    /\ now >= constructedAt + 2000

\* C8: a machine constructed from a template of at least 2 frames has a
\* startPoint and an endPoint.
C8_PointsEstablished ==
    Len(template) >= 2 => (startPoint # Null /\ endPoint # Null)

\* a machine constructed from a template of two frames, arm down and arm up
C8_Witness ==
    /\ Len(template) >= 2
    /\ startPoint = WristLow
    /\ endPoint = WristHigh

\* C9: the accuracy of every result lies in 0..100.
C9_AccuracyBounded ==
    result # << >> => (result[1].accuracy >= 0 /\ result[1].accuracy <= 100)

\* a scored tick far from both points, where 100 - 200 * distance is negative
C9_Witness ==
    /\ Scored
    /\ result[1].debugInfo.distanceToStart > 500
    /\ result[1].debugInfo.distanceToEnd > 500
    /\ result[1].accuracy = 0

\* C10: a rejected tick (no pose, fewer than 16 landmarks, start or end point
\* missing, no wrist selected) returns accuracy 0, repQuality and status
\* 'poor', points 0 and stateChange null, and leaves repCount, repState,
\* stateStartTime and lastStateTransitionTime unchanged; its feedback is one
\* of three strings, which no scored tick returns.
C10_RejectedTick ==
    [][ \A pose \in LivePoses :
          (TickStep /\ ProcessPose(pose)) =>
            LET rejected == \/ ~pose.present
                            \/ Len(pose.lm) < 16
                            \/ startPoint = Null
                            \/ endPoint = Null
                            \/ determineActiveArm(pose.lm).currentWrist = Null
                r == result'[1]
            IN  /\ rejected =>
                     /\ r.accuracy = 0
                     /\ r.repQuality = "poor"
                     /\ r.status = "poor"
                     /\ r.points = 0
                     /\ r.debugInfo.stateChange = Null
                     /\ UNCHANGED << repCount, repState, stateStartTime,
                                     lastStateTransitionTime >>
                /\ rejected <=> r.feedback \in RejectFeedbacks ]_vars

\* a pose without wrists was rejected in the middle of a movement
C10_Witness ==
    /\ result # << >>
    /\ result[1].feedback = NoWrist
    /\ repState = MOVEMENT_AT_END
    /\ result[1].points = 0

\* C11: from any reachable state, reset() leaves the machine with
\* repCount = 0, repState = waiting_for_start and a null last-transition
\* message.
C11_ResetClears ==
    [][ Reset => /\ repCount' = 0
                 /\ repState' = WAITING_FOR_START
                 /\ lastStateChange' = Null ]_vars

\* a machine that had left waiting_for_start is back there with no
\* repetition counted and no message, which only reset() brings about
C11_Witness ==
    /\ lastStateTransitionTime > constructedAt
    /\ repCount = 0
    /\ repState = WAITING_FOR_START
    /\ lastStateChange = Null
    /\ result = << >>

\* a step made by a provideFeedback call: the clock stands still and the
\* enabled flag is kept
VoiceCallStep == now' = now /\ voice'.enabled = voice.enabled

\* no utterance of provideFeedback in the last feedbackCooldown milliseconds
OffCooldown == spokenAt = << >> \/ now - spokenAt[1] >= feedbackCooldown

\* C12 (as stated): each provideFeedback call emits at most one utterance,
\* any two utterances of provideFeedback are at least feedbackCooldown apart,
\* and two rep-completion calls 500 ms apart produce exactly one utterance.
C12_Original ==
    [][ VoiceCallStep =>
          /\ Len(spoken') <= 1
          /\ (spoken' # << >> /\ spokenAt # << >>) => now - spokenAt[1] >= feedbackCooldown
          /\ ( /\ prevCall # << >>
               /\ prevCall[1].repCompletion
               /\ prevCall'[1].repCompletion
               /\ now - prevCall[1].time = 500 )
             => (IF prevCall[1].spoke THEN 1 ELSE 0) + Len(spoken') = 1 ]_vars

\* C12 (amended): each provideFeedback call emits at most one utterance and
\* any two utterances of provideFeedback are at least feedbackCooldown apart;
\* two rep-completion calls 500 ms apart produce at most one utterance, and
\* exactly one when the first of them is made with feedback enabled and no
\* utterance in the feedbackCooldown before it.
C12_CooldownSpacing ==
    [][ VoiceCallStep =>
          /\ Len(spoken') <= 1
          /\ (spoken' # << >> /\ spokenAt # << >>) => now - spokenAt[1] >= feedbackCooldown
          /\ ( /\ prevCall # << >>
               /\ prevCall[1].repCompletion
               /\ prevCall'[1].repCompletion
               /\ now - prevCall[1].time = 500 )
             => (IF prevCall[1].spoke THEN 1 ELSE 0) + Len(spoken') <= 1
          /\ (prevCall'[1].repCompletion /\ voice.enabled /\ OffCooldown)
             => ( /\ Len(spoken') = 1
                  /\ spokenAt' = << now >> ) ]_vars

\* the first repetition was announced at construction time and a second
\* rep-completion call 500 ms later stayed silent
C12_Witness ==
    /\ spokenAt = << VoiceEpoch >>
    /\ voice.lastRepCount = 1
    /\ voice.enabled
    /\ prevCall # << >>
    /\ prevCall[1].time = VoiceEpoch + 500
    /\ prevCall[1].repCompletion
    /\ ~prevCall[1].spoke

\* the last call emitted a rep-completion utterance, at least the cooldown ago
RepAnnouncedLongAgo ==
    /\ prevCall # << >>
    /\ prevCall[1].spoke
    /\ prevCall[1].repCompletion
    /\ now - prevCall[1].time >= (IF IsSpaced THEN feedbackCooldownSpaced ELSE feedbackCooldown)

\* a call with no rep increase, no state change and formAnalysis.accuracy < 50
PoorFormCall ==
    \E currentRep \in 0..voice.lastRepCount :
      \E stateMachineResult \in StateMachineResults(currentRep) :
        \E formAnalysis \in (FormAnalyses \cup FormAnalysesSpaced) \ { << >> } :
          \E draw \in BOOLEAN :
            /\ StateChangeOf(stateMachineResult) = Null
            /\ formAnalysis[1].accuracy < 500
            /\ IF IsSpaced
               THEN ProvideFeedbackSpaced(stateMachineResult, formAnalysis, currentRep, draw)
               ELSE ProvideFeedback(stateMachineResult, formAnalysis, currentRep, draw)

\* C13 (as stated): if provideFeedback emits a rep-completion utterance and
\* is called again at least the cooldown later with no rep increase, no state
\* change and formAnalysis.accuracy < 50, the second call also emits an
\* utterance.
C13_Original ==
    [][ (RepAnnouncedLongAgo /\ PoorFormCall) => spoken' # << >> ]_vars

\* C13 (amended): with the 3000 ms system of voiceFeedback.ts the second call
\* emits an utterance whenever feedback is still enabled; with the 8000 ms
\* system of part_005 the second call emits nothing, because the form
\* correction there waits for two consecutive form issues and the rep
\* completion has reset their count.
C13_CooldownNotLatched ==
    [][ (RepAnnouncedLongAgo /\ PoorFormCall) =>
          /\ (~IsSpaced /\ voice.enabled) => spoken' # << >>
          /\ IsSpaced => spoken' = << >> ]_vars

\* the first repetition was announced and a call 4 s after construction,
\* with poor form only, was answered with the form correction
C13_Witness ==
    /\ ~IsSpaced
    /\ voice.lastRepCount = 1
    /\ prevCall # << >>
    /\ prevCall[1].time = VoiceEpoch + 4000
    /\ ~prevCall[1].repCompletion
    /\ spoken = << << "Try to match the template movement more closely." >> >>
    /\ voice.lastFeedbackTime = now

\* what the priority order of C14 lets a call say
ExpectedUtterance(stateMachineResult, formAnalysis, currentRep, draw) ==
    IF currentRep > voice.lastRepCount
    THEN << getRepCompletionFeedback(currentRep, stateMachineResult) >>
    ELSE IF /\ StateChangeOf(stateMachineResult) # Null
            /\ StateChangeOf(stateMachineResult)[1] # RepCompleteMsg(0)[1]
    THEN << getStateChangeFeedback(stateMachineResult) >>
    ELSE IF formAnalysis # << >> /\ formAnalysis[1].accuracy < 500
    THEN << getFormCorrectionFeedback(formAnalysis) >>
    ELSE IF formAnalysis # << >> /\ formAnalysis[1].accuracy > 850 /\ draw
    THEN << getEncouragementFeedback(formAnalysis) >>
    ELSE << >>

\* C14: when enabled and off cooldown, provideFeedback takes the first branch
\* whose condition holds, in the order rep completed (which always produces
\* an utterance), state transition other than the rep-complete one, poor
\* accuracy (< 50), praise (> 85 and the random draw passes); a lower branch
\* is never taken when a higher condition holds, and nothing is said when no
\* condition holds.
C14_BranchPriority ==
    [][ ( /\ ret = << >>
          /\ ret' # << >>
          /\ voice.enabled
          /\ now - voice.lastFeedbackTime >= feedbackCooldown ) =>
          /\ spoken' = ExpectedUtterance(args[1].stateMachineResult, args[1].formAnalysis,
                                         args[1].currentRep, args[1].draw)
          /\ args[1].currentRep > voice.lastRepCount =>
               (Len(spoken') = 1 /\ spoken'[1] # NoText) ]_vars

\* a call that reported the end position together with an accuracy below 50
\* and no new repetition was answered with the state-change text
C14_Witness ==
    /\ ret # << >>
    /\ args[1].currentRep = voice.lastRepCount
    /\ StateChangeOf(args[1].stateMachineResult) = EndReachedMsg
    /\ args[1].formAnalysis = << [ accuracy |-> 200 ] >>
    /\ spoken = << << "Great! Hold briefly, then lower back down." >> >>

\* C15: analyzeForm returns a result with accuracy 0, status 'poor' and
\* points 0 whenever the pose is missing or empty, the template is missing or
\* has no frames, or fewer than 6 key landmarks can be extracted from the pose.
C15_ZeroConfidence ==
    ( /\ ret # << >>
      /\ args[1].fn = "analyzeForm"
      /\ \/ ~args[1].currentPose.present
         \/ Len(args[1].currentPose.lm) = 0
         \/ args[1].template = << >>
         \/ Len(args[1].template[1].frames) = 0
         \/ Cardinality({ k \in 1..Len(keyIndices) :
                            At(args[1].currentPose.lm, keyIndices[k]) # Null }) < 6 )
    => ( /\ ret[1].accuracy = 0
         /\ ret[1].status = "poor"
         /\ ret[1].points = 0 )

\* a pose with five of the eight key landmarks, analysed against a recorded
\* template, got the zero-confidence result
C15_Witness ==
    /\ ret # << >>
    /\ args[1].fn = "analyzeForm"
    /\ args[1].currentPose.present
    /\ Len(args[1].currentPose.lm) = 33
    /\ Cardinality({ k \in 1..Len(keyIndices) :
                       At(args[1].currentPose.lm, keyIndices[k]) # Null }) = 5
    /\ args[1].template # << >>
    /\ Len(args[1].template[1].frames) = 2
    /\ ret[1] = [ accuracy |-> 0, feedback |-> NotEnoughLandmarks,
                  status |-> "poor", points |-> 0 ]

\* C16: every template persisted by saveTemplate has frameCount equal to
\* the length of frames and at least 1; saveTemplate with zero recorded
\* frames returns null and writes nothing to the template store.
C16_PersistedTemplates ==
    [][ /\ \A n \in ExerciseNames :
             templateStore'[n] # Null =>
               /\ templateStore'[n][1].frameCount = Len(templateStore'[n][1].frames)
               /\ templateStore'[n][1].frameCount >= 1
        /\ (ret' # << >> /\ recordingState.recordedFrames = << >>) =>
             (ret' = << Null >> /\ templateStore' = templateStore) ]_vars

\* a two-frame template is in the store and a later saveTemplate, made after
\* a new recording was started, returned null
C16_Witness ==
    /\ templateStore["sky painter"] # Null
    /\ templateStore["sky painter"][1].frameCount = 2
    /\ Len(templateStore["sky painter"][1].frames) = 2
    /\ templateStore["shoulder abduction"] = Null
    /\ recordingState.recordedFrames = << >>
    /\ ret = << Null >>

\* the table of the status thresholds, on an accuracy in percent
SharedBand(percent) ==
    IF percent >= 80 THEN [ status |-> "excellent", points |-> 10 ]
    ELSE IF percent >= 60 THEN [ status |-> "good", points |-> 7 ]
    ELSE IF percent >= 40 THEN [ status |-> "needs_improvement", points |-> 4 ]
    ELSE [ status |-> "poor", points |-> 1 ]

\* the status and points of the returned result
Graded(status, points) == ret[1].status = status /\ ret[1].points = points

\* the returned result is a rejection: a message and no measurement
Rejection ==
    IF args[1].fn = "analyzeForm"
    THEN ret[1].feedback \in { NoPoseData, NoTemplateData, NotEnoughLandmarks }
    ELSE ret[1].feedback \in RejectFeedbacks

\* C17 as stated: every result maps its accuracy to status and points by
\* the one table 80 -> excellent (10), 60 -> good (7), 40 ->
\* needs_improvement (4), otherwise poor (1), for analyzeForm and for the
\* RepetitionStateMachine in every repState.
C17_Original ==
    ret # << >> =>
      Graded(SharedBand(ret[1].accuracy).status, SharedBand(ret[1].accuracy).points)

\* C17: a rejected result is 'poor' with 0 points.  A scored analyzeForm
\* result follows the table 80 -> excellent (10), 60 -> good (7), 40 ->
\* needs_improvement (4), otherwise poor (1), applied to the accuracy before
\* rounding, so that a reported accuracy equal to a threshold can carry the
\* band below it.  A scored RepetitionStateMachine result, likewise before
\* rounding, is in waiting_for_start excellent (5) from 80 and poor (0)
\* below, and in the two movement states excellent (10) from 80, good (7)
\* from 60 and needs_improvement (3) below.
C17_StatusTables ==
    ret # << >> =>
      LET accuracy == ret[1].accuracy
      IN  IF Rejection THEN accuracy = 0 /\ Graded("poor", 0)
          ELSE IF args[1].fn = "analyzeForm"
          THEN \/ accuracy >= 80 /\ Graded("excellent", 10)
               \/ accuracy >= 60 /\ accuracy <= 80 /\ Graded("good", 7)
               \/ accuracy >= 40 /\ accuracy <= 60 /\ Graded("needs_improvement", 4)
               \/ accuracy <= 40 /\ Graded("poor", 1)
          ELSE IF ret[1].repState = WAITING_FOR_START
          THEN \/ accuracy >= 80 /\ Graded("excellent", 5)
               \/ accuracy <= 80 /\ Graded("poor", 0)
          ELSE \/ accuracy >= 80 /\ Graded("excellent", 10)
               \/ accuracy >= 60 /\ accuracy <= 80 /\ Graded("good", 7)
               \/ accuracy <= 60 /\ Graded("needs_improvement", 3)

\* analyzeForm reported an accuracy of 80 for a raised arm and graded it
\* 'good' with 7 points
C17_Witness ==
    /\ ret # << >>
    /\ args[1].fn = "analyzeForm"
    /\ ~Rejection
    /\ ret[1].phase = "raised"
    /\ ret[1].accuracy = 80
    /\ Graded("good", 7)

\* the four landmarks of the pose under examination
PoseRightWrist == At(args[1].pose, 15)

PoseLeftWrist == At(args[1].pose, 16)

PoseRightShoulder == At(args[1].pose, 11)

PoseLeftShoulder == At(args[1].pose, 12)

BothSidesPresent ==
    /\ PoseRightWrist # Null
    /\ PoseLeftWrist # Null
    /\ PoseRightShoulder # Null
    /\ PoseLeftShoulder # Null

\* armHeight = shoulder.y - wrist.y, in hundredths
PoseRightArmHeight == PoseRightShoulder[2] - PoseRightWrist[2]

PoseLeftArmHeight == PoseLeftShoulder[2] - PoseLeftWrist[2]

\* C18: for every pose in which both wrists and both shoulders are present,
\* determineActiveArm returns 'both' with the wrist of the side with the
\* larger armHeight when |armHeight| > 0.1 on both sides, 'left' with the
\* left wrist when only the left side exceeds 0.1, and 'right' with the right
\* wrist when only the right side exceeds 0.1 or neither does.
C18_ActiveArmSelector ==
    ("determineActiveArm" \in Called /\ BothSidesPresent) =>
      LET r == ret[1]["determineActiveArm"]
          rightMoving == Abs(PoseRightArmHeight) > 10
          leftMoving == Abs(PoseLeftArmHeight) > 10
      IN  IF rightMoving /\ leftMoving
          THEN /\ r.activeArm = "both"
               /\ PoseRightArmHeight > PoseLeftArmHeight => r.currentWrist = PoseRightWrist
               /\ PoseLeftArmHeight > PoseRightArmHeight => r.currentWrist = PoseLeftWrist
          ELSE IF leftMoving
          THEN r.activeArm = "left" /\ r.currentWrist = PoseLeftWrist
          ELSE r.activeArm = "right" /\ r.currentWrist = PoseRightWrist

\* the right arm is raised and the left arm hangs, both more than 0.1 from
\* the shoulder: 'both' was returned with the right wrist
C18_Witness ==
    /\ "determineActiveArm" \in Called
    /\ BothSidesPresent
    /\ PoseRightArmHeight > 10
    /\ PoseLeftArmHeight < -10
    /\ ret[1]["determineActiveArm"].activeArm = "both"
    /\ ret[1]["determineActiveArm"].currentWrist = PoseRightWrist
    /\ PoseRightWrist # PoseLeftWrist

\* the three copies have returned
AllCalled == Called = { "determineActiveArm", "analyzeExercisePhase", "detectRepetition" }

\* two copies returned the same activeArm and chose the same wrist
SameArm(f, g) ==
    /\ ret[1][f].activeArm = ret[1][g].activeArm
    /\ ret[1][f].currentWrist = ret[1][g].currentWrist

\* C19: determineActiveArm on the raw pose, analyzeExercisePhase on the
\* extracted key landmarks and detectRepetition on the raw pose return
\* the same activeArm and choose the same wrist for every pose, including
\* poses in which some of the landmarks 11-16, 23, 24 are missing.
C19_CopiesAgree ==
    AllCalled =>
      /\ SameArm("determineActiveArm", "analyzeExercisePhase")
      /\ SameArm("determineActiveArm", "detectRepetition")

\* C20: with an initialized template and a pose of at least 16 landmarks,
\* processPose rejects the tick with 'No wrist detected' only when neither
\* wrist landmark (index 15, 16) is present; if only one side's landmarks
\* are present, that side and its wrist are selected and the tick is scored.
C20_NoWristOnlyWithoutWrists ==
    ( /\ ret # << >>
      /\ args[1].fn = "processPose"
      /\ args[1].pose.present
      /\ Len(args[1].pose.lm) >= 16
      /\ startPoint # Null
      /\ endPoint # Null )
    => LET lm == args[1].pose.lm
           rightSide == At(lm, 15) # Null /\ At(lm, 11) # Null
           leftSide == At(lm, 16) # Null /\ At(lm, 12) # Null
           rightGone == At(lm, 15) = Null /\ At(lm, 11) = Null
           leftGone == At(lm, 16) = Null /\ At(lm, 12) = Null
       IN  /\ ret[1].feedback = NoWrist => (At(lm, 15) = Null /\ At(lm, 16) = Null)
           /\ (leftSide /\ rightGone) =>
                (ret[1].feedback \notin RejectFeedbacks /\ ret[1].activeArm = "left")
           /\ (rightSide /\ leftGone) =>
                (ret[1].feedback \notin RejectFeedbacks /\ ret[1].activeArm = "right")

\* C21: in the result of a processPose tick, debugInfo.stateChange is
\* non-null exactly when repState changed during that tick, and it contains
\* 'REP COMPLETE' with the new total exactly when repCount was incremented
\* during that tick; on every realized transition both stateStartTime and
\* lastStateTransitionTime are set to the tick's time.
C21_StateChangeReported ==
    [][ TickStep =>
          LET stateChange == result'[1].debugInfo.stateChange
          IN  /\ stateChange # Null <=> repState' # repState
              /\ (stateChange # Null /\ Includes(stateChange, "REP COMPLETE"))
                   <=> repCount' = repCount + 1
              /\ repCount' # repCount => stateChange = RepCompleteMsg(repCount')
              /\ repCount' \in { repCount, repCount + 1 }
              /\ repState' # repState =>
                   (stateStartTime' = now /\ lastStateTransitionTime' = now) ]_vars

\* the tick that completed the first repetition reported it and restarted
\* both timers
C21_Witness ==
    /\ Scored
    /\ result[1].debugInfo.stateChange = RepCompleteMsg(1)
    /\ repCount = 1
    /\ repState = WAITING_FOR_START
    /\ stateStartTime = now
    /\ lastStateTransitionTime = now

\* the wrist landmarks (pose index 15 and 16) of a pose
WristsOf(p) == { At(p, 15), At(p, 16) } \ { Null }

\* C22: startPoint is the active wrist of template.frames[0] and endPoint is
\* the active wrist of the template frame whose active-wrist y is minimal
\* over all frames (so endPoint.y <= startPoint.y); for templates produced
\* by the Frame Recorder both points are wrist landmarks (pose index 15 or
\* 16) of a recorded pose.
C22_TemplatePoints ==
    ret # << >> =>
      LET kept == KeptPoses(args[1].poses)
      IN  /\ startPoint = extractWristPosition(template[1])
          /\ startPoint \in WristsOf(kept[1])
          /\ \E i \in 1..Len(kept) : endPoint \in WristsOf(kept[i])
          /\ \E i \in 1..Len(template) : endPoint = extractWristPosition(template[i])
          /\ \A i \in 1..Len(template) : endPoint[2] <= extractWristPosition(template[i])[2]
          /\ endPoint[2] <= startPoint[2]

\* a processPose call returned a scored result
ScoredCall ==
    /\ ret # << >>
    /\ args[1].fn = "processPose"
    /\ ret[1].feedback \notin RejectFeedbacks

\* C23 as stated: in every scored processPose result, repQuality is
\* determined by the accuracy reported in that same result: 'excellent' iff
\* accuracy >= 85, 'good' iff 70 <= accuracy < 85, 'poor' iff accuracy < 70.
C23_Original ==
    ScoredCall =>
      /\ ret[1].repQuality = "excellent" <=> ret[1].accuracy >= 85
      /\ ret[1].repQuality = "good" <=> (70 <= ret[1].accuracy /\ ret[1].accuracy < 85)
      /\ ret[1].repQuality = "poor" <=> ret[1].accuracy < 70

\* C23: in every scored processPose result, repQuality is determined by
\* the tick's accuracy before rounding: 'excellent' from 85, 'good' from 70
\* to below 85, 'poor' below 70.  The reported accuracy is rounded, so that
\* a reported 85 can carry 'good' and a reported 70 can carry 'poor'.
C23_QualityFromAccuracy ==
    ScoredCall =>
      LET \* the accuracy before rounding, in tenths of a percent
          accuracy == calculateAccuracy(ret[1].repState,
                                        ret[1].debugInfo.distanceToStart,
                                        ret[1].debugInfo.distanceToEnd)
      IN  /\ ret[1].accuracy = RoundTenths(accuracy)
          /\ ret[1].repQuality = "excellent" <=> accuracy >= 850
          /\ ret[1].repQuality = "good" <=> (700 <= accuracy /\ accuracy < 850)
          /\ ret[1].repQuality = "poor" <=> accuracy < 700

\* a wrist 0.077 from the start point: the accuracy 84.6 is reported as 85
\* and the repetition quality is 'good'
C23_Witness ==
    /\ ScoredCall
    /\ ret[1].repState = WAITING_FOR_START
    /\ ret[1].debugInfo.distanceToStart = 77
    /\ ret[1].accuracy = 85
    /\ ret[1].repQuality = "good"

\* C24: setProximityThreshold(v) changes only proximityThreshold: repCount,
\* repState, start and end point and both timers are unchanged, no bounds
\* are enforced, and the new value is the one compared against on the very
\* next processPose tick (so with v <= 0 no transition can ever fire).
C24_ThresholdOnly ==
    [][ /\ proximityThreshold' # proximityThreshold =>
             /\ proximityThreshold' \in Thresholds
             /\ UNCHANGED << repCount, repState, startPoint, endPoint,
                             stateStartTime, lastStateTransitionTime >>
        /\ TickStep =>
             /\ result'[1].debugInfo.proximityThreshold = proximityThreshold
             /\ proximityThreshold' = proximityThreshold
             /\ repState' # repState =>
                  InRangeOfTarget(result'[1].debugInfo.distanceToStart,
                                  result'[1].debugInfo.distanceToEnd)
             /\ (ScoredTickStep /\ ~TransitionBlocked(now)
                   /\ InRangeOfTarget(result'[1].debugInfo.distanceToStart,
                                      result'[1].debugInfo.distanceToEnd))
                  => repState' # repState
             /\ proximityThreshold <= 0 => UNCHANGED << repState, repCount >> ]_vars

\* the threshold was set to 0 and a tick with the wrist on the start point,
\* past both timers, did not start the movement
C24_Witness ==
    /\ proximityThreshold = 0
    /\ Scored
    /\ result[1].debugInfo.proximityThreshold = 0
    /\ result[1].debugInfo.distanceToStart = 0
    /\ repState = WAITING_FOR_START
    /\ now - lastStateTransitionTime >= minTimeBetweenTransitions
    /\ now - stateStartTime >= stateStabilityThreshold

\* C25: the Frame Recorder appends a frame only while a recording is active
\* and only when the frame has at least 6 extracted landmarks; frames are
\* kept in arrival order, startRecording empties the frame list, and
\* stopRecording leaves the recorded frames unchanged.
C25_RecordedFrames ==
    [][ LET frames == recordingState.recordedFrames
            framesAfter == recordingState'.recordedFrames
            appended == /\ Len(framesAfter) = Len(frames) + 1
                        /\ SubSeq(framesAfter, 1, Len(frames)) = frames
                        /\ Len(framesAfter[Len(framesAfter)]) >= 6
                        /\ \E poseLandmarks \in RecorderPoses :
                             framesAfter[Len(framesAfter)] = frameData(poseLandmarks)
        IN  /\ framesAfter # frames =>
                 \/ recordingState.isRecording /\ recordingState'.isRecording /\ appended
                 \/ recordingState'.isRecording /\ framesAfter = << >>
            /\ (recordingState'.startTime # Null
                  /\ recordingState'.startTime # recordingState.startTime)
                 => (recordingState'.isRecording /\ framesAfter = << >>)
            /\ (recordingState.isRecording /\ ~recordingState'.isRecording)
                 => framesAfter = frames ]_vars

\* two frames were recorded in the order of the poses, a pose with five key
\* landmarks was not, and the recording was stopped
C25_Witness ==
    /\ ~recordingState.isRecording
    /\ recordingState.startTime = Null
    /\ recordingState.recordedFrames =
         << frameData(RecordedPose(1)), frameData(RecordedPose(2)) >>
    /\ frameData(RecordedPose(1)) # frameData(RecordedPose(2))

\* an analyzeForm call returned a result that none of the validations rejected
ScoredFormCall ==
    /\ ret # << >>
    /\ args[1].fn = "analyzeForm"
    /\ ~Rejection

\* the phase of an armHeightPercent, in thousandths
PhaseOfHeight(armHeightPercent) ==
    IF armHeightPercent < 100 THEN "rest"
    ELSE IF armHeightPercent < 700 THEN "raising"
    ELSE IF armHeightPercent < 900 THEN "raised"
    ELSE "lowering"

\* C26: for a scored analyzeForm call, phase is classified from
\* armHeightPercent = clamp((shoulder.y - wrist.y + 0.2)/0.4, 0, 1) of the
\* active arm as rest (< 0.1), raising ([0.1, 0.7)), raised ([0.7, 0.9)) or
\* lowering (>= 0.9), and the returned accuracy lies in [0, 100] in every
\* phase (rest in 0..20, raising and lowering in 30..70).
C26_PhaseClassification ==
    ScoredFormCall =>
      LET arm == RepetitionArm(args[1].currentPose.lm)
          armHeight == arm.currentShoulder[2] - arm.currentWrist[2]
          armHeightPercent == Max(0, Min(1000, (armHeight + 20) * 25))
      IN  /\ ret[1].accuracy >= 0
          /\ ret[1].accuracy <= 100
          /\ ret[1].phase = "rest" => ret[1].accuracy <= 20
          /\ ret[1].phase \in { "raising", "lowering" } =>
               (30 <= ret[1].accuracy /\ ret[1].accuracy <= 70)
          /\ (arm.currentWrist # Null /\ arm.currentShoulder # Null) =>
               ret[1].phase = PhaseOfHeight(armHeightPercent)

\* C27: the form-issue detector speaks only when the accuracy analyzeForm
\* computed is in the needs_improvement band [40, 60); its feedback is then
\* the first triggered issue in the order asymmetry, target height, elbow
\* bend, shoulder shrug, body lean, wrist bend, and the phase's
\* encouragement text when no issue triggers.
FixedFeedbacks ==
    { "Perfect form! Keep it up!", "Good form, minor adjustments needed",
      "Start the exercise", "Poor form. Please review the instructions." }

ComputedAccuracy == 100 * FormScale - ret[1].distance

InNeedsImprovementBand ==
    40 * FormScale <= ComputedAccuracy /\ ComputedAccuracy < 60 * FormScale

Landmark(i) == At(args[1].currentPose.lm, i)

RightHeight == Landmark(11)[2] - Landmark(15)[2]

LeftHeight == Landmark(12)[2] - Landmark(16)[2]

Moving == ret[1].phase # "rest"

Asymmetry == Moving /\ Abs(RightHeight - LeftHeight) > 10

TargetHeight ==
    \/ ret[1].phase = "raised" /\ RightHeight + LeftHeight < 10
    \/ ret[1].phase = "raising" /\ RightHeight + LeftHeight < 4
    \/ ret[1].phase = "rest" /\ RightHeight + LeftHeight > 20

RightElbow == Moving /\ calculateAngle(Landmark(11), Landmark(13), Landmark(15)) < 160

LeftElbow == Moving /\ calculateAngle(Landmark(12), Landmark(14), Landmark(16)) < 160

ShoulderShrug ==
    Moving /\ Abs((Landmark(23)[2] - Landmark(11)[2])
                    - (Landmark(24)[2] - Landmark(12)[2])) > 5

BodyLean ==
    Moving /\ Abs((Landmark(23)[1] + Landmark(24)[1])
                    - (Landmark(11)[1] + Landmark(12)[1])) > 20

RightWrist == Moving /\ WristAngleAbove30(Landmark(13), Landmark(15))

LeftWrist == Moving /\ WristAngleAbove30(Landmark(14), Landmark(16))

ExpectedFeedback ==
    IF Asymmetry
    THEN (IF RightHeight > LeftHeight THEN RightArmHigher ELSE LeftArmHigher)
    ELSE IF TargetHeight
    THEN (CASE ret[1].phase = "raised" -> ArmsHigher
            [] ret[1].phase = "raising" -> KeepRaising
            [] OTHER -> LowerArms)
    ELSE IF RightElbow THEN RightElbowBent
    ELSE IF LeftElbow THEN LeftElbowBent
    ELSE IF ShoulderShrug THEN ShouldersLevel
    ELSE IF BodyLean THEN BodyStraight
    ELSE IF RightWrist THEN RightWristBent
    ELSE IF LeftWrist THEN LeftWristBent
    ELSE PhaseEncouragement(ret[1].phase, ret[1].phaseProgress)

C27_FirstIssue ==
    ScoredFormCall =>
      /\ ret[1].feedback \notin FixedFeedbacks => InNeedsImprovementBand
      /\ InNeedsImprovementBand => ret[1].feedback = ExpectedFeedback

C27_Witness ==
    /\ ScoredFormCall
    /\ InNeedsImprovementBand
    /\ ShoulderShrug
    /\ BodyLean
    /\ LeftWrist
    /\ ret[1].feedback = ShouldersLevel

\* C28: in every copy of the distance function, the distance from a point
\* to itself is 0 and the distance between two points is the same in
\* either order.
DistanceCalls == { i \in 1..Len(ret) : Len(ret[i].points) = 2 }

C28_DistanceSymmetry ==
    /\ \A i \in DistanceCalls :
         (ret[i].points[1] # Null /\ ret[i].points[1] = ret[i].points[2])
           => ret[i].value = Number(0)
    /\ \A i \in DistanceCalls, j \in DistanceCalls :
         (/\ ret[i].fn = ret[j].fn
          /\ ret[i].points[1] # Null
          /\ ret[i].points[2] # Null
          /\ ret[i].points = << ret[j].points[2], ret[j].points[1] >>)
           => ret[i].value = ret[j].value

C28_Witness ==
    \E i \in DistanceCalls, j \in DistanceCalls :
      /\ ret[i].fn = "poseUtils.calculate3DDistance"
      /\ ret[j].fn = "poseUtils.calculate3DDistance"
      /\ ret[i].points = << << 40, 45, -10 >>, << 70, 36, 0 >> >>
      /\ ret[j].points = << << 70, 36, 0 >>, << 40, 45, -10 >> >>
      /\ ret[i].value = Number(329)
      /\ ret[j].value = Number(329)

\* C29: every copy of the geometry utilities fails closed: the distance is
\* the sentinel 1.0 when a point is missing, the angle is 0 when a point is
\* missing or a vector has zero magnitude, and no call throws or gives NaN.
ZeroMagnitude(points) ==
    points[2] # Null /\ (points[1] = points[2] \/ points[3] = points[2])

C29_FailClosed ==
    \A i \in 1..Len(ret) :
      /\ ret[i].value.kind = "number"
      /\ (i \in DistanceCalls /\ Null \in { ret[i].points[1], ret[i].points[2] })
           => ret[i].value = Number(1000)
      /\ (i \notin DistanceCalls
            /\ (Null \in { ret[i].points[1], ret[i].points[2], ret[i].points[3] }
                  \/ ZeroMagnitude(ret[i].points)))
           => ret[i].value = Number(0)

\* C30: in every reachable state of a RepetitionStateMachine stateStartTime
\* equals lastStateTransitionTime; hence whenever the 1000 ms guard passes
\* the 500 ms dwell guard also passes.  This is the claim as stated.
C30_Original ==
    /\ stateStartTime = lastStateTransitionTime
    /\ now - lastStateTransitionTime >= minTimeBetweenTransitions
         => now - stateStartTime >= stateStabilityThreshold

\* C30: stateStartTime is never later than lastStateTransitionTime, at most
\* a clock tick earlier until the first transition and equal to it from
\* then on; hence whenever the 1000 ms guard passes the 500 ms dwell guard
\* also passes and the dwell guard never blocks a tick on its own.
C30_TimersTogether ==
    /\ stateStartTime <= lastStateTransitionTime
    /\ lastStateTransitionTime - stateStartTime <= ClockTick
    /\ lastStateTransitionTime > constructedAt => stateStartTime = lastStateTransitionTime
    /\ now - lastStateTransitionTime >= minTimeBetweenTransitions
         => now - stateStartTime >= stateStabilityThreshold

C30_Witness ==
    /\ repState = MOVEMENT_IN_PROGRESS
    /\ lastStateTransitionTime > constructedAt
    /\ stateStartTime = lastStateTransitionTime
    /\ now - lastStateTransitionTime >= minTimeBetweenTransitions

\* C31: with a monotonic clock a tick makes at most one transition, a
\* transition comes at least 1000 ms after the previous one (or after the
\* construction), and at every time repCount * 3000 <= now - constructedAt.
Successor(state) ==
    CASE state = WAITING_FOR_START -> MOVEMENT_IN_PROGRESS
      [] state = MOVEMENT_IN_PROGRESS -> MOVEMENT_AT_END
      [] state = MOVEMENT_AT_END -> WAITING_FOR_START

C31_FrameRateIndependent ==
    /\ [](repCount * 3000 <= now - constructedAt)
    /\ [][ TickStep =>
             /\ repState' \in { repState, Successor(repState) }
             /\ repCount' \in { repCount, repCount + 1 }
             /\ repCount' # repCount => repState' # repState
             /\ repState' # repState =>
                  /\ lastStateTransitionTime >= constructedAt
                  /\ now - lastStateTransitionTime >= 1000
                  /\ lastStateTransitionTime' = now ]_vars

C31_Witness ==
    /\ result # << >>
    /\ repCount = 1
    /\ lastStateTransitionTime = now
    /\ now - constructedAt >= 3000
    /\ prevTick # << >>
    /\ prevTick[1].changed

\* C32: reset() leaves stateStartTime, lastStateTransitionTime, startPoint,
\* endPoint and proximityThreshold unchanged, so a tick after a reset is
\* gated by the time of the last transition before the reset: it is blocked
\* within 1000 ms of that transition and passes from then on.
ResetEffect ==
    /\ result' = << >>
    /\ now' = now
    /\ \/ repState' # repState
       \/ repCount' # repCount
       \/ lastStateChange' # lastStateChange

\* no transition since the last reset, and one before it
AfterReset ==
    /\ repState = WAITING_FOR_START
    /\ repCount = 0
    /\ lastStateTransitionTime > constructedAt

C32_ResetKeepsTimers ==
    [][ /\ ResetEffect =>
             UNCHANGED << stateStartTime, lastStateTransitionTime, startPoint, endPoint,
                          proximityThreshold >>
        /\ (ScoredTickStep /\ AfterReset) =>
             IF now - lastStateTransitionTime < 1000
             THEN UNCHANGED << repState, repCount, lastStateTransitionTime >>
             ELSE result'[1].debugInfo.distanceToStart < proximityThreshold
                    => repState' = MOVEMENT_IN_PROGRESS ]_vars

C32_Witness ==
    /\ AfterReset
    /\ result # << >>
    /\ result[1].feedback \notin RejectFeedbacks
    /\ result[1].debugInfo.distanceToStart < proximityThreshold
    /\ now - lastStateTransitionTime < 1000

\* C33: while ticks keep arriving with an advancing clock and the wrist is
\* within the proximity threshold of the current state's target, the first
\* tick at least 1000 ms after the previous transition (or after the
\* construction) leaves the state, so no state lasts forever.
C33_InRangeNeverIgnored ==
    /\ [][ (ScoredTickStep /\ now - lastStateTransitionTime >= 1000)
             => repState' = Successor(repState) ]_vars
    /\ \A state \in RepStates :
         (repState = state /\ lastStateTransitionTime + 1250 <= MaxTime)
           ~> (repState # state)

C33_Witness ==
    /\ repState = MOVEMENT_AT_END
    /\ result # << >>
    /\ lastStateTransitionTime = now
    /\ result[1].debugInfo.distanceToEnd < proximityThreshold
    /\ startPoint # endPoint

\* C34: with a proximity threshold of at most 0.15, a tick that increments
\* repCount returns repQuality 'good' or 'excellent', never 'poor': the
\* accuracy is that of the new state waiting_for_start, 100 - 200 times a
\* distanceToStart below the threshold.
C34_CountedRepNotPoor ==
    [][ (TickStep /\ repCount' = repCount + 1 /\ proximityThreshold <= 150) =>
          LET r == result'[1]
          IN  /\ r.repState = WAITING_FOR_START
              /\ r.debugInfo.distanceToStart < proximityThreshold
              /\ r.accuracy = RoundTenths(1000 - 2 * r.debugInfo.distanceToStart)
              /\ r.accuracy >= 70
              /\ r.repQuality \in { "good", "excellent" }
              /\ r.repQuality = "excellent" <=> 2 * r.debugInfo.distanceToStart <= 150 ]_vars

C34_Witness ==
    /\ result # << >>
    /\ result[1].debugInfo.stateChange = RepCompleteMsg(1)
    /\ proximityThreshold = 150
    /\ result[1].repQuality = "good"
    /\ result[1].debugInfo.distanceToStart = 120
    /\ result[1].debugInfo.distanceToEnd > 150

\* C35: when startPoint and endPoint coincide, a wrist held at startPoint
\* makes every tick from 1000 ms after the construction a transition, so
\* with ticks at least 1000 ms apart repCount goes up by 1 every three
\* ticks; when the two points are at least 2 * proximityThreshold apart, no
\* stationary wrist ever increases repCount.
HeldWrist == determineActiveArm(script[1].pose.lm).currentWrist

\* ticks from 1000 ms after the construction
Effective == { i \in 1..Len(script) : script[i].time >= constructedAt + 1000 }

CycleState(k) ==
    CASE k % 3 = 0 -> WAITING_FOR_START
      [] k % 3 = 1 -> MOVEMENT_IN_PROGRESS
      [] k % 3 = 2 -> MOVEMENT_AT_END

C35_StationaryWrist ==
    script # << >> =>
      /\ (startPoint = endPoint /\ HeldWrist = startPoint /\ proximityThreshold > 0) =>
           /\ Len(script) - Cardinality(Effective) <= 1
           /\ \A i \in Effective :
                LET k == Cardinality({ j \in Effective : j <= i })
                IN  script[i].count = k \div 3 /\ script[i].state = CycleState(k)
      /\ calculate3DDistance(startPoint, endPoint) >= 2 * proximityThreshold =>
           \A i \in 1..Len(script) : script[i].count = 0

C35_Witness ==
    /\ startPoint = endPoint
    /\ Len(script) >= 6
    /\ script[3].count = 1
    /\ script[6].count = 2
    /\ \A i \in 1..Len(script) : script[i].pose = script[1].pose

\* C36: on the legacy path every tick gets isRepComplete = FALSE from
\* detectRepetition, which the page calls with previousPhase = null, so
\* currentRep stays 0 for every pose sequence; detectRepetition itself,
\* given the tick's pose and analysis with previousPhase 'raised', reports
\* a completed repetition whenever the active arm is less than 0.1 above
\* its shoulder.
ActiveArmHeight(poseLandmarks) ==
    RepetitionArm(poseLandmarks).currentShoulder[2]
      - RepetitionArm(poseLandmarks).currentWrist[2]

HasActiveArm(poseLandmarks) ==
    /\ Len(poseLandmarks) >= 16
    /\ RepetitionArm(poseLandmarks).currentWrist # Null
    /\ RepetitionArm(poseLandmarks).currentShoulder # Null

C36_LegacyNeverCounts ==
    ret # << >> =>
      /\ ~ret[1].repDetection.isRepComplete
      /\ ret[1].currentRep = 0
      /\ (HasActiveArm(ret[1].pose) /\ ActiveArmHeight(ret[1].pose) < 10) =>
           detectRepetition(ret[1].pose, << ret[1].analysis >>, << "raised" >>).isRepComplete

C36_Witness ==
    /\ ret # << >>
    /\ HasActiveArm(ret[1].pose)
    /\ ActiveArmHeight(ret[1].pose) < 10
    /\ ret[1].analysis.status # "poor"
    /\ ~ret[1].repDetection.isRepComplete
    /\ ret[1].currentRep = 0

\* C37: lastRepCount never decreases and changes only in a call that speaks
\* a rep-completion text; a call made while disabled or within 3000 ms of
\* the last utterance changes nothing and says nothing; an enabled call
\* outside the cooldown with currentRep > lastRepCount speaks the
\* rep-completion text for currentRep and records it; the counts reported
\* and left unspoken since the last utterance are covered by the one
\* announcement of the latest count, and are never announced afterwards.
FeedbackCallStep == now' = now /\ voice'.enabled = voice.enabled

Blocked == ~voice.enabled \/ now - voice.lastFeedbackTime < 3000

C37_RepAnnouncements ==
    /\ [] LET announced == ret[1].announced
          IN  /\ voice.lastRepCount =
                   IF announced = << >> THEN 0 ELSE announced[Len(announced)].rep
              /\ \A r \in ret[1].pending : r > voice.lastRepCount
              /\ \A i \in 1..Len(announced) :
                   /\ \A r \in announced[i].pending : r <= announced[i].rep
                   /\ \A j \in 1..Len(announced) :
                        i < j => /\ announced[i].rep < announced[j].rep
                                 /\ announced[j].time - announced[i].time >= 3000
    /\ [][ /\ voice'.lastRepCount >= voice.lastRepCount
           /\ voice'.lastRepCount # voice.lastRepCount =>
                /\ FeedbackCallStep
                /\ Len(spoken') = 1
                /\ IsRepText(spoken'[1])
                /\ spoken'[1][2] = voice'.lastRepCount
           /\ (FeedbackCallStep /\ Blocked) => voice' = voice /\ spoken' = << >>
           /\ (FeedbackCallStep /\ ~Blocked /\ args'[1].currentRep > voice.lastRepCount) =>
                /\ Len(spoken') = 1
                /\ IsRepText(spoken'[1])
                /\ spoken'[1][2] = args'[1].currentRep
                /\ voice'.lastRepCount = args'[1].currentRep ]_vars

C37_Witness ==
    /\ ret[1].announced # << >>
    /\ ret[1].announced[1].rep = 2
    /\ ret[1].announced[1].pending = { 1, 2 }
    /\ voice.lastRepCount = 2
    /\ spoken # << >>

\* C38: a scored analyzeForm result is 'excellent' only in phase 'raised';
\* in the phases rest, raising and lowering its accuracy is below 80, before
\* and after rounding; in phase rest it is 'poor' with the feedback 'Start
\* the exercise', so that no text of the form-issue detector or of the
\* phase encouragement is returned for the rest phase.
DetectorFeedbacks ==
    { RightArmHigher, LeftArmHigher, ArmsHigher, KeepRaising, LowerArms, RightElbowBent,
      LeftElbowBent, ShouldersLevel, BodyStraight, RightWristBent, LeftWristBent,
      PhaseEncouragement("rest", 0) }

C38_ExcellentOnlyRaised ==
    ScoredFormCall =>
      /\ ret[1].status = "excellent" => ret[1].phase = "raised"
      /\ ret[1].phase \in { "rest", "raising", "lowering" } =>
           /\ ComputedAccuracy < 80 * FormScale
           /\ ret[1].accuracy < 80
      /\ ret[1].phase = "rest" =>
           /\ ret[1].status = "poor"
           /\ ret[1].feedback = "Start the exercise"
           /\ ret[1].feedback \notin DetectorFeedbacks

C38_Witness ==
    /\ ScoredFormCall
    /\ ret[1].status = "excellent"
    /\ ret[1].phase = "raised"
    /\ Landmark(15) = WristUp

\* C39: handleTemplateSaved (through handleStopRecording) and clearTemplate
\* leave the RepetitionStateMachine as it is, and once the template was
\* replaced or cleared the page still has the machine constructed at mount
\* from the template loaded then, or no machine if none was constructed.
TemplateHandlerStep ==
    \/ args'[1].template # args[1].template /\ args'[1].built = args[1].built
    \/ templateStore' # templateStore

MountTemplate == IF args[1].built = 0 THEN << >> ELSE StoredTemplate.frames

C39_MachineOutlivesTemplate ==
    /\ [][ TemplateHandlerStep =>
             UNCHANGED << template, machineVars, constructedAt, args[1].stateMachine >> ]_vars
    /\ [](args[1].changed =>
            /\ constructedAt = 0
            /\ template = MountTemplate
            /\ args[1].stateMachine = (args[1].built = 1)
            /\ startPoint = initStartPoint(MountTemplate)
            /\ endPoint = initEndPoint(MountTemplate))

====
